---- MODULE Spec2Model ----
(***************************************************************************)
(* The board graph and the rule engine of the settlement-building game:    *)
(* Board construction (board.py), the Game operations (game.py), the       *)
(* Player and Bank records (player.py, game.py) and the development cards  *)
(* (cards.py).                                                             *)
(***************************************************************************)
EXTENDS Integers, Sequences, FiniteSets, TLC

(***************************************************************************)
(* Part 1.  Board._create_board_structure and Board._create_ports.         *)
(***************************************************************************)

NumHexagons == 19
NumVertices == 6
Hexagons == 1..NumHexagons
Vertices == 0..(NumVertices - 1)

\* hex_adjacencies, flattened in the dictionary's iteration order:
\* <<hex_id, neighbor_id, my_edge, neighbor_edge>>
hex_adjacencies == <<
    <<1, 2, 2, 5>>, <<1, 5, 3, 0>>, <<1, 5, 4, 1>>, <<1, 4, 4, 0>>, <<1, 4, 5, 1>>,
    <<2, 1, 5, 2>>, <<2, 3, 2, 5>>, <<2, 6, 3, 0>>, <<2, 6, 4, 1>>, <<2, 5, 4, 0>>, <<2, 5, 5, 1>>,
    <<3, 2, 5, 2>>, <<3, 7, 3, 0>>, <<3, 7, 4, 1>>, <<3, 6, 4, 0>>, <<3, 6, 5, 1>>,
    <<4, 1, 0, 4>>, <<4, 1, 1, 5>>, <<4, 5, 2, 5>>, <<4, 9, 3, 0>>, <<4, 9, 4, 1>>, <<4, 8, 4, 0>>, <<4, 8, 5, 1>>,
    <<5, 1, 0, 3>>, <<5, 1, 1, 4>>, <<5, 2, 0, 4>>, <<5, 2, 1, 5>>, <<5, 4, 5, 2>>, <<5, 6, 2, 5>>, <<5, 10, 3, 0>>, <<5, 10, 4, 1>>, <<5, 9, 4, 0>>, <<5, 9, 5, 1>>,
    <<6, 2, 0, 3>>, <<6, 2, 1, 4>>, <<6, 3, 0, 4>>, <<6, 3, 1, 5>>, <<6, 5, 5, 2>>, <<6, 7, 2, 5>>, <<6, 11, 3, 0>>, <<6, 11, 4, 1>>, <<6, 10, 4, 0>>, <<6, 10, 5, 1>>,
    <<7, 3, 0, 3>>, <<7, 3, 1, 4>>, <<7, 6, 5, 2>>, <<7, 12, 3, 0>>, <<7, 12, 4, 1>>, <<7, 11, 4, 0>>, <<7, 11, 5, 1>>,
    <<8, 4, 0, 4>>, <<8, 4, 1, 5>>, <<8, 9, 2, 5>>, <<8, 13, 3, 0>>, <<8, 13, 4, 1>>,
    <<9, 4, 0, 3>>, <<9, 4, 1, 4>>, <<9, 5, 0, 4>>, <<9, 5, 1, 5>>, <<9, 8, 5, 2>>, <<9, 10, 2, 5>>, <<9, 14, 3, 0>>, <<9, 14, 4, 1>>, <<9, 13, 4, 0>>, <<9, 13, 5, 1>>,
    <<10, 5, 0, 3>>, <<10, 5, 1, 4>>, <<10, 6, 0, 4>>, <<10, 6, 1, 5>>, <<10, 9, 5, 2>>, <<10, 11, 2, 5>>, <<10, 15, 3, 0>>, <<10, 15, 4, 1>>, <<10, 14, 4, 0>>, <<10, 14, 5, 1>>,
    <<11, 6, 0, 3>>, <<11, 6, 1, 4>>, <<11, 7, 0, 4>>, <<11, 7, 1, 5>>, <<11, 10, 5, 2>>, <<11, 12, 2, 5>>, <<11, 16, 3, 0>>, <<11, 16, 4, 1>>, <<11, 15, 4, 0>>, <<11, 15, 5, 1>>,
    <<12, 7, 0, 3>>, <<12, 7, 1, 4>>, <<12, 11, 5, 2>>, <<12, 16, 4, 0>>, <<12, 16, 5, 1>>,
    <<13, 8, 0, 3>>, <<13, 8, 1, 4>>, <<13, 9, 0, 4>>, <<13, 9, 1, 5>>, <<13, 14, 2, 5>>, <<13, 17, 3, 0>>, <<13, 17, 4, 1>>,
    <<14, 9, 0, 3>>, <<14, 9, 1, 4>>, <<14, 10, 0, 4>>, <<14, 10, 1, 5>>, <<14, 13, 5, 2>>, <<14, 15, 2, 5>>, <<14, 18, 3, 0>>, <<14, 18, 4, 1>>, <<14, 17, 4, 0>>, <<14, 17, 5, 1>>,
    <<15, 10, 0, 3>>, <<15, 10, 1, 4>>, <<15, 11, 0, 4>>, <<15, 11, 1, 5>>, <<15, 14, 5, 2>>, <<15, 16, 2, 5>>, <<15, 19, 3, 0>>, <<15, 19, 4, 1>>, <<15, 18, 4, 0>>, <<15, 18, 5, 1>>,
    <<16, 11, 0, 3>>, <<16, 11, 1, 4>>, <<16, 12, 0, 4>>, <<16, 12, 1, 5>>, <<16, 15, 5, 2>>, <<16, 19, 4, 0>>, <<16, 19, 5, 1>>,
    <<17, 13, 0, 3>>, <<17, 13, 1, 4>>, <<17, 14, 0, 4>>, <<17, 14, 1, 5>>, <<17, 18, 2, 5>>,
    <<18, 14, 0, 3>>, <<18, 14, 1, 4>>, <<18, 15, 0, 4>>, <<18, 15, 1, 5>>, <<18, 17, 5, 2>>, <<18, 19, 2, 5>>,
    <<19, 15, 0, 3>>, <<19, 15, 1, 4>>, <<19, 16, 0, 4>>, <<19, 16, 1, 5>>, <<19, 18, 5, 2>> >>

\* port_configs: <<port_type, hex_id, first plot index, second plot index>>
port_configs == <<
    <<"3_any_to_1", 1, 0, 5>>,
    <<"2_wheat_to_1", 2, 0, 1>>,
    <<"2_ore_to_1", 7, 0, 1>>,
    <<"2_wood_to_1", 4, 4, 5>>,
    <<"3_any_to_1", 12, 1, 2>>,
    <<"2_brick_to_1", 13, 4, 5>>,
    <<"2_wool_to_1", 16, 2, 3>>,
    <<"3_any_to_1", 17, 3, 4>>,
    <<"3_any_to_1", 18, 2, 3>> >>

\* The Board before _create_board_structure has created anything.  Plots and
\* Paths are numbered by their id counters; 0 stands for None.
\*   plot_map[h][v]      all_plots_map[(h, v)], later hex.plots[v]
\*   plot_hexagons[p]    Plot.adjacent_hexagons
\*   plot_paths[p]       Plot.adjacent_paths
\*   plot_plots[p]       Plot.adjacent_plots
\*   plot_port[p]        Plot.port (index into port_configs)
\*   paths[e]            Path.plots
\*   path_hexagons[e]    Path.adjacent_hexagons
\*   hex_paths[h]        Hexagon.paths
EmptyBoard ==
    [ plot_map      |-> [h \in Hexagons |-> [v \in Vertices |-> 0]],
      plot_hexagons |-> << >>,
      plot_paths    |-> << >>,
      plot_plots    |-> << >>,
      plot_port     |-> << >>,
      paths         |-> << >>,
      path_hexagons |-> << >>,
      hex_paths     |-> [h \in Hexagons |-> << >>] ]

\* Entry k of hex_adjacencies names a plot for (hex_id, vertex): the
\* neighbour was processed earlier and the vertex is an end of the shared edge.
SharesVertex(b, hex_id, vertex, k) ==
    LET e == hex_adjacencies[k]
        my_v1 == e[3]
        my_v2 == (e[3] + 1) % NumVertices
        neighbor_v1 == e[4]
        neighbor_v2 == (e[4] + 1) % NumVertices
    IN  /\ e[1] = hex_id
        /\ e[2] < hex_id
        /\ \/ vertex = my_v1 /\ b.plot_map[e[2]][neighbor_v2] # 0
           \/ vertex # my_v1 /\ vertex = my_v2 /\ b.plot_map[e[2]][neighbor_v1] # 0

\* The plot of an already processed neighbour that (hex_id, vertex) shares,
\* found by the scan of hex_adjacencies[hex_id] (first match wins), or 0.
SharedPlot(b, hex_id, vertex) ==
    LET hits == {k \in 1..Len(hex_adjacencies) : SharesVertex(b, hex_id, vertex, k)}
    IN  IF hits = {} THEN 0
        ELSE LET k == CHOOSE j \in hits : \A i \in hits : j <= i
                 e == hex_adjacencies[k]
             IN  IF vertex = e[3]
                 THEN b.plot_map[e[2]][(e[4] + 1) % NumVertices]
                 ELSE b.plot_map[e[2]][e[4]]

\* One iteration of the plot loop: hex.plots[vertex] for hexagon hex_id.
CreatePlotStep(b, hex_id, vertex) ==
    LET shared_plot == SharedPlot(b, hex_id, vertex)
        new_id == Len(b.plot_hexagons) + 1
    IN  IF shared_plot # 0
        THEN [b EXCEPT !.plot_map[hex_id][vertex] = shared_plot,
                       !.plot_hexagons[shared_plot] = @ \cup {hex_id}]
        ELSE [b EXCEPT !.plot_map[hex_id][vertex] = new_id,
                       !.plot_hexagons = Append(@, {hex_id}),
                       !.plot_paths = Append(@, {}),
                       !.plot_plots = Append(@, {}),
                       !.plot_port = Append(@, 0)]

\* Path.__init__(plot1, plot2): the new path registers itself on both plots
\* and registers the plots as adjacent to each other.
PathInit(b, plot1, plot2) ==
    LET new_id == Len(b.paths) + 1
        b1 == [b EXCEPT !.paths = Append(@, <<plot1, plot2>>),
                        !.path_hexagons = Append(@, {})]
        b2 == [b1 EXCEPT !.plot_paths[plot1] = @ \cup {new_id}]
        b3 == [b2 EXCEPT !.plot_paths[plot2] = @ \cup {new_id}]
        b4 == [b3 EXCEPT !.plot_plots[plot1] = @ \cup {plot2}]
    IN  [b4 EXCEPT !.plot_plots[plot2] = @ \cup {plot1}]

\* The path loop without the scan for an existing path: every edge of every
\* hexagon gets a new path.
CreatePathStepNoScan(b, hex_id, i) ==
    LET next_i == (i + 1) % NumVertices
        plot1 == b.plot_map[hex_id][i]
        plot2 == b.plot_map[hex_id][next_i]
        c == PathInit(b, plot1, plot2)
        new_id == Len(c.paths)
    IN  [c EXCEPT !.hex_paths[hex_id] = Append(@, new_id),
                  !.path_hexagons[new_id] = @ \cup {hex_id}]
\* One iteration of the path loop: the path between hex.plots[i] and
\* hex.plots[(i + 1) % 6], reused when plot1 already has a path to plot2.
CreatePathStep(b, hex_id, i) ==
    LET next_i == (i + 1) % NumVertices
        plot1 == b.plot_map[hex_id][i]
        plot2 == b.plot_map[hex_id][next_i]
        found == {e \in b.plot_paths[plot1] : plot2 = b.paths[e][1] \/ plot2 = b.paths[e][2]}
    IN  IF found # {}
        THEN LET existing_path == CHOOSE e \in found : TRUE
             IN  [b EXCEPT !.hex_paths[hex_id] = Append(@, existing_path),
                           !.path_hexagons[existing_path] = @ \cup {hex_id}]
        ELSE LET c == PathInit(b, plot1, plot2)
                 new_id == Len(c.paths)
             IN  [c EXCEPT !.hex_paths[hex_id] = Append(@, new_id),
                           !.path_hexagons[new_id] = @ \cup {hex_id}]

\* Port.__init__ for port_configs[k]: both plots point at the port.
CreatePortStep(b, k) ==
    LET cfg == port_configs[k]
        pa == b.plot_map[cfg[2]][cfg[3]]
        pb == b.plot_map[cfg[2]][cfg[4]]
        b1 == [b EXCEPT !.plot_port[pa] = k]
    IN  [b1 EXCEPT !.plot_port[pb] = k]

PlotSteps == NumHexagons * NumVertices
PathSteps == NumHexagons * NumVertices
PortSteps == Len(port_configs)
TotalSteps == PlotSteps + PathSteps + PortSteps

\* Step number k (from 0) of Board.__init__, in program order.
BoardStep(b, k) ==
    IF k < PlotSteps
    THEN CreatePlotStep(b, (k \div NumVertices) + 1, k % NumVertices)
    ELSE IF k < PlotSteps + PathSteps
    THEN CreatePathStep(b, ((k - PlotSteps) \div NumVertices) + 1, (k - PlotSteps) % NumVertices)
    ELSE CreatePortStep(b, k - PlotSteps - PathSteps + 1)

\* Steps lo .. hi-1 of Board.__init__ applied in order (split in halves to keep
\* the evaluation shallow).
RECURSIVE RunBoardSteps(_, _, _)
RunBoardSteps(b, lo, hi) ==
    IF lo >= hi THEN b
    ELSE IF hi = lo + 1 THEN BoardStep(b, lo)
    ELSE LET mid == (lo + hi) \div 2
             first == RunBoardSteps(b, lo, mid)
         IN  IF Len(first.plot_hexagons) > 0 THEN RunBoardSteps(first, mid, hi) ELSE first

\* Board(): the board Game.__init__ holds.
BuiltBoard == RunBoardSteps(EmptyBoard, 0, TotalSteps)

\* The state: board is the Board (under construction while ctor_step counts the
\* constructor's steps), game the Game that owns it, ncalls the number of
\* operations issued on the Game since its initial state.
VARIABLES board, ctor_step, game, ncalls, returned

(***************************************************************************)
(* Part 2.  The data of a game: models.py, Player.__init__, Bank.__init__, *)
(* Game.__init__, Board.setup_random_board.                                *)
(***************************************************************************)

\* Game(num_players: int = 4): the players are numbered by their place in
\* game.players (1 .. NumPlayers); current_player_index counts from 0 as in
\* the source.
NumPlayers == 4
Players == 1..NumPlayers

Plots == 1..Len(board.plot_hexagons)
Paths == 1..Len(board.paths)

\* models.py: Resource, Terrain (terrain -> resource), DevelopmentCardType
Resources == {"brick", "ore", "wood", "wool", "wheat"}
CardTypes == {"monopoly", "road_building", "invention", "victory_point", "knight"}

TerrainResource(terrain) ==
    CASE terrain = "hills"     -> "brick"
      [] terrain = "mountains" -> "ore"
      [] terrain = "forests"   -> "wood"
      [] terrain = "pastures"  -> "wool"
      [] terrain = "fields"    -> "wheat"
      [] OTHER                 -> "none"

BankStart == 19
StartSettlements == 5
StartCities == 4
StartRoads == 15
AwardMinRoad == 5
AwardMinKnights == 3
VictoryTarget == 10
DiscardLimit == 7
DefaultTradeGive == 4
GenericPortGive == 3
SpecificPortGive == 2
FreeRoads == 2

\* DevelopmentCardDeck._initialize_deck: the 25 cards by type.  The shuffled order
\* is not observable before a card is drawn, so the deck is kept as the number of
\* cards of each type still in it and a draw takes any type that is left.
FullDeck ==
    [t \in CardTypes |->
        CASE t = "monopoly"      -> 2
          [] t = "road_building" -> 2
          [] t = "invention"     -> 2
          [] t = "victory_point" -> 5
          [] t = "knight"        -> 14]

NoBuilding == [player |-> 0, kind |-> "none"]

\* Game.__init__ (with Board(), Bank(), DevelopmentCardDeck(), Player(i)).
\* Per-object fields are functions of the object's number:
\*   terrain, roll_value, has_robber   Hexagon fields (terrain "none", roll 0: None)
\*   robber_location                   Board.robber_location (0: None)
\*   building[plot]                    Plot.building
\*   road[path]                        Path.road (the owner; 0: None); a player's
\*                                     roads list is the set of paths it owns
\*   settlements[p]                    Player.settlements (plots, in list order);
\*                                     Player.cities is the set of plots holding
\*                                     p's city
\*   development_cards[p]              Player.development_cards; "bought" marks
\*                                     membership in cards_bought_this_turn
NewGame ==
    [ phase |-> "setup",
      current_player_index |-> 0,
      turn_number |-> 0,
      winner |-> 0,
      setup_round |-> 1,
      setup_forward |-> TRUE,
      settlements_placed_this_setup |-> 0,
      bank |-> [r \in Resources |-> BankStart],
      deck |-> FullDeck,
      terrain |-> [h \in Hexagons |-> "none"],
      roll_value |-> [h \in Hexagons |-> 0],
      has_robber |-> [h \in Hexagons |-> FALSE],
      robber_location |-> 0,
      building |-> [pl \in Plots |-> NoBuilding],
      road |-> [pa \in Paths |-> 0],
      resources |-> [p \in Players |-> [r \in Resources |-> 0]],
      settlements |-> [p \in Players |-> << >>],
      available_settlements |-> [p \in Players |-> StartSettlements],
      available_cities |-> [p \in Players |-> StartCities],
      available_roads |-> [p \in Players |-> StartRoads],
      development_cards |-> [p \in Players |-> << >>],
      development_card_played_this_turn |-> [p \in Players |-> FALSE],
      victory_point_cards_played |-> [p \in Players |-> 0],
      knights_played |-> [p \in Players |-> 0],
      has_largest_army |-> [p \in Players |-> FALSE],
      has_longest_road |-> [p \in Players |-> FALSE],
      free_roads_remaining |-> [p \in Players |-> 0] ]

\* setup_random_board: the terrain and roll-value lists before the shuffle.
TerrainList ==
    << "hills", "hills", "hills",
       "mountains", "mountains", "mountains",
       "forests", "forests", "forests", "forests",
       "pastures", "pastures", "pastures", "pastures",
       "fields", "fields", "fields", "fields",
       "desert" >>

RollValueList == << 2, 3, 3, 4, 4, 5, 5, 6, 6, 8, 8, 9, 9, 10, 10, 11, 11, 12 >>

\* A shuffle of a list of length n: position i receives element
\* ((i - 1) * stride + shift) % n + 1 (a permutation when stride and n are coprime).
Shuffled(list, stride, shift) ==
    [i \in 1..Len(list) |-> list[(((i - 1) * stride + shift) % Len(list)) + 1]]

\* The number of non-desert hexagons before hexagon h: the index of the roll
\* value hexagon h receives (value_index in the source).
ValueIndex(terrains, h) == Cardinality({k \in 1..(h - 1) : terrains[k] # "desert"})

\* Board.setup_random_board with the shuffles given: terrains to the hexagons in
\* order, the robber on the desert, roll values to the non-desert hexagons.
SetupRandomBoard(g, terrains, roll_values) ==
    LET deserts == {h \in Hexagons : terrains[h] = "desert"}
        last_desert == CHOOSE h \in deserts : \A k \in deserts : k <= h
    IN  [g EXCEPT
            !.terrain = [h \in Hexagons |-> terrains[h]],
            !.has_robber = [h \in Hexagons |-> g.has_robber[h] \/ terrains[h] = "desert"],
            !.robber_location = IF deserts = {} THEN g.robber_location ELSE last_desert,
            !.roll_value = [h \in Hexagons |->
                IF terrains[h] = "desert" THEN g.roll_value[h]
                ELSE roll_values[ValueIndex(terrains, h) + 1]]]

(***************************************************************************)
(* Part 3.  Board queries: adjacency, legality, longest road.              *)
(***************************************************************************)

PathPlots(path) == {board.paths[path][1], board.paths[path][2]}
AdjacentPaths(plot) == board.plot_paths[plot]
AdjacentPlots(plot) == board.plot_plots[plot]
AdjacentHexagons(plot) == board.plot_hexagons[plot]
HexPlot(h, v) == board.plot_map[h][v]

Max(S) == CHOOSE x \in S : \A y \in S : y <= x
Min(S) == CHOOSE x \in S : \A y \in S : x <= y

\* Plot.is_occupied, Path.is_occupied
PlotOccupied(g, plot) == g.building[plot].kind # "none"
PathOccupied(g, path) == g.road[path] # 0

\* has_adjacent_settlement answering no for every plot: the distance rule
\* dropped from can_build_settlement.
HasAdjacentSettlementNever(g, plot) == FALSE

\* Plot.has_adjacent_settlement
HasAdjacentSettlement(g, plot) ==
    \E adj_plot \in AdjacentPlots(plot) : PlotOccupied(g, adj_plot)

\* can_build_settlement without the road requirement of a placement after
\* setup.
CanBuildSettlementUnlinked(g, player, plot, initial_placement) ==
    /\ ~PlotOccupied(g, plot)
    /\ g.available_settlements[player] > 0
    /\ ~HasAdjacentSettlement(g, plot)
\* Board.can_build_settlement
CanBuildSettlement(g, player, plot, initial_placement) ==
    /\ ~PlotOccupied(g, plot)
    /\ g.available_settlements[player] > 0
    /\ ~HasAdjacentSettlement(g, plot)
    /\ \/ initial_placement
       \/ \E path \in AdjacentPaths(plot) : g.road[path] = player

\* Board.can_build_city
CanBuildCity(g, player, plot) ==
    /\ g.building[plot].kind = "settlement"
    /\ g.building[plot].player = player
    /\ g.available_cities[player] > 0

\* can_build_road without the test that the path is empty
CanBuildRoadOver(g, player, path) ==
    /\ g.available_roads[player] > 0
    /\ \/ \E plot \in PathPlots(path) :
            PlotOccupied(g, plot) /\ g.building[plot].player = player
       \/ \E plot \in PathPlots(path) :
            /\ ~(PlotOccupied(g, plot) /\ g.building[plot].player # player)
            /\ \E adj_path \in AdjacentPaths(plot) :
                    adj_path # path /\ g.road[adj_path] = player
\* can_build_road linking to the player's roads through any end of the path,
\* whoever holds a building there.
CanBuildRoadThrough(g, player, path) ==
    /\ ~PathOccupied(g, path)
    /\ g.available_roads[player] > 0
    /\ \/ \E plot \in PathPlots(path) :
            PlotOccupied(g, plot) /\ g.building[plot].player = player
       \/ \E plot \in PathPlots(path) :
            \E adj_path \in AdjacentPaths(plot) :
                adj_path # path /\ g.road[adj_path] = player
\* Board.can_build_road (initial_placement is not read by the source)
CanBuildRoad(g, player, path) ==
    /\ ~PathOccupied(g, path)
    /\ g.available_roads[player] > 0
    /\ \/ \E plot \in PathPlots(path) :
            PlotOccupied(g, plot) /\ g.building[plot].player = player
       \/ \E plot \in PathPlots(path) :
            /\ ~(PlotOccupied(g, plot) /\ g.building[plot].player # player)
            /\ \E adj_path \in AdjacentPaths(plot) :
                    adj_path # path /\ g.road[adj_path] = player

\* The paths holding a road of the player (Player.roads)
PlayerRoads(g, player) == {path \in Paths : g.road[path] = player}
\* The plots holding a city of the player (Player.cities)
PlayerCities(g, player) ==
    {plot \in Plots : g.building[plot] = [player |-> player, kind |-> "city"]}

\* Board._dfs_road_length: came_from is 0 for None; every recursive call gets
\* its own copy of visited.
RECURSIVE DfsRoadLength(_, _, _, _, _)
DfsRoadLength(g, player, current_path, came_from, visited) ==
    IF current_path \in visited THEN 0
    ELSE IF g.road[current_path] # player THEN 0
    ELSE LET seen == visited \cup {current_path}
             open_plots == {plot \in PathPlots(current_path) :
                               ~(PlotOccupied(g, plot) /\ g.building[plot].player # player)}
             next_paths == UNION {AdjacentPaths(plot) \ {current_path, came_from} :
                                     plot \in open_plots}
         IN  Max({1} \cup {1 + DfsRoadLength(g, player, adj_path, current_path, seen) :
                              adj_path \in next_paths})

\* get_longest_road searching from the player's first road only instead of
\* from every road.
GetLongestRoadFromFirst(g, player) ==
    IF PlayerRoads(g, player) = {} THEN 0
    ELSE DfsRoadLength(g, player, Min(PlayerRoads(g, player)), 0, {})

\* Board.get_longest_road
GetLongestRoad(g, player) ==
    IF PlayerRoads(g, player) = {} THEN 0
    ELSE Max({0} \cup {DfsRoadLength(g, player, path, 0, {}) : path \in PlayerRoads(g, player)})

(***************************************************************************)
(* Part 4.  Player and Bank operations.                                    *)
(***************************************************************************)

\* Player.get_total_resources
GetTotalResources(g, player) ==
    g.resources[player]["brick"] + g.resources[player]["ore"]
        + g.resources[player]["wood"] + g.resources[player]["wool"]
        + g.resources[player]["wheat"]

\* Player.must_discard_on_seven, Player.get_discard_count
MustDiscardOnSeven(g, player) == GetTotalResources(g, player) > DiscardLimit
\* Half of the hand rounded up, where get_discard_count rounds down
GetDiscardCountUp(g, player) == (GetTotalResources(g, player) + 1) \div 2
GetDiscardCount(g, player) == GetTotalResources(g, player) \div 2

\* Player.calculate_victory_points
CalculateVictoryPoints(g, player) ==
    Len(g.settlements[player]) * 1
        + Cardinality(PlayerCities(g, player)) * 2
        + g.victory_point_cards_played[player]
        + (IF g.has_largest_army[player] THEN 2 ELSE 0)
        + (IF g.has_longest_road[player] THEN 2 ELSE 0)

\* A cost: what the player hands to the bank.
NoCost == [r \in Resources |-> 0]
RoadCost == [NoCost EXCEPT !["brick"] = 1, !["wood"] = 1]
SettlementCost == [NoCost EXCEPT !["brick"] = 1, !["wood"] = 1, !["wool"] = 1, !["wheat"] = 1]
CityCost == [NoCost EXCEPT !["wheat"] = 2, !["ore"] = 3]
\* The price of a development card without its ore
DevelopmentCardCostNoOre == [NoCost EXCEPT !["wool"] = 1, !["wheat"] = 1]
DevelopmentCardCost == [NoCost EXCEPT !["wool"] = 1, !["wheat"] = 1, !["ore"] = 1]

\* Player.can_afford_settlement / _city / _development_card, and the resource
\* branch of can_afford_road
CanAfford(g, player, cost) == \A r \in Resources : g.resources[player][r] >= cost[r]

\* The transfer the pay_for_* methods make: player to bank.
Pay(g, player, cost) ==
    [g EXCEPT !.resources[player] = [r \in Resources |-> @[r] - cost[r]],
              !.bank = [r \in Resources |-> @[r] + cost[r]]]

\* Player.pay_for_road: a free road (Road Building) is used before resources.
PayForRoadOk(g, player) ==
    g.free_roads_remaining[player] > 0 \/ CanAfford(g, player, RoadCost)

\* pay_for_road using up a free road and taking the price as well.
PayForRoadCharged(g, player) ==
    IF g.free_roads_remaining[player] > 0
    THEN Pay([g EXCEPT !.free_roads_remaining[player] = @ - 1], player, RoadCost)
    ELSE Pay(g, player, RoadCost)
PayForRoad(g, player) ==
    IF g.free_roads_remaining[player] > 0
    THEN [g EXCEPT !.free_roads_remaining[player] = @ - 1]
    ELSE Pay(g, player, RoadCost)

\* Port.get_trade_ratio: the give count of the port for the resource, 0 for None.
\* The resource of a 2:1 port is the second word of its type name.
PortResource(port_type) ==
    CASE port_type = "2_wheat_to_1" -> "wheat"
      [] port_type = "2_ore_to_1"   -> "ore"
      [] port_type = "2_wood_to_1"  -> "wood"
      [] port_type = "2_brick_to_1" -> "brick"
      [] port_type = "2_wool_to_1"  -> "wool"
      [] OTHER                      -> "any"

GetTradeRatio(port, resource) ==
    IF port_configs[port][1] = "3_any_to_1" THEN GenericPortGive
    ELSE IF PortResource(port_configs[port][1]) = resource THEN SpecificPortGive
    ELSE 0

\* Player.get_accessible_ports
GetAccessiblePorts(g, player) ==
    {board.plot_port[plot] :
        plot \in {pl \in Plots : /\ g.building[pl].player = player
                                 /\ board.plot_port[pl] # 0}}

\* get_best_trade_ratio overlooking the player's ports
GetBestTradeRatioNoPort(g, player, resource) == DefaultTradeGive
\* Player.get_best_trade_ratio: the give count
GetBestTradeRatio(g, player, resource) ==
    Min({DefaultTradeGive} \cup
        {GetTradeRatio(port, resource) :
            port \in {q \in GetAccessiblePorts(g, player) : GetTradeRatio(q, resource) # 0}})

\* get_playable_development_cards without the test on the cards bought this turn
GetPlayableDevelopmentCardsBought(g, player) ==
    LET cards == g.development_cards[player]
    IN  IF g.development_card_played_this_turn[player]
        THEN {i \in 1..Len(cards) :
                ~cards[i].has_been_played /\ cards[i].card_type = "victory_point"}
        ELSE {i \in 1..Len(cards) : ~cards[i].has_been_played}

\* Player.get_playable_development_cards: the indices (from 1) of the playable cards
GetPlayableDevelopmentCards(g, player) ==
    LET cards == g.development_cards[player]
    IN  IF g.development_card_played_this_turn[player]
        THEN {i \in 1..Len(cards) :
                ~cards[i].has_been_played /\ cards[i].card_type = "victory_point"}
        ELSE {i \in 1..Len(cards) :
                /\ ~cards[i].has_been_played
                /\ ~(cards[i].bought /\ cards[i].card_type # "victory_point")}

\* Bank.has_resource
BankHasResource(g, resource, amount) == g.bank[resource] >= amount

\* trade_with_player without the test that the bank has the resource asked
TradeWithPlayerOkAnyStock(g, player, give_resource, give_amount, receive_resource) ==
    g.resources[player][give_resource] >= give_amount
\* Bank.trade_with_player
TradeWithPlayerOk(g, player, give_resource, give_amount, receive_resource) ==
    /\ g.resources[player][give_resource] >= give_amount
    /\ BankHasResource(g, receive_resource, 1)

TradeWithPlayer(g, player, give_resource, give_amount, receive_resource) ==
    LET g1 == [g EXCEPT !.resources[player][give_resource] = @ - give_amount,
                        !.bank[give_resource] = @ + give_amount]
    IN  [g1 EXCEPT !.resources[player][receive_resource] = @ + 1,
                   !.bank[receive_resource] = @ - 1]

(***************************************************************************)
(* Part 5.  Scoring: Game.check_victory, check_longest_road,               *)
(* check_largest_army.                                                     *)
(***************************************************************************)

\* check_victory with > in place of >=: exactly 10 points does not end the game.
CheckVictoryAbove(g) ==
    LET winners == {p \in Players : CalculateVictoryPoints(g, p) > VictoryTarget}
    IN  IF winners = {} THEN g
        ELSE [g EXCEPT !.winner = Min(winners), !.phase = "end"]

\* Game.check_victory: the first player in list order with 10 points wins.
CheckVictory(g) ==
    LET winners == {p \in Players : CalculateVictoryPoints(g, p) >= VictoryTarget}
    IN  IF winners = {} THEN g
        ELSE [g EXCEPT !.winner = Min(winners), !.phase = "end"]

\* check_victory answering True one point early.
CheckVictoryOkEarly(g) ==
    \E player \in Players : CalculateVictoryPoints(g, player) >= VictoryTarget - 1

\* The value check_victory returns
CheckVictoryOk(g) ==
    \E player \in Players : CalculateVictoryPoints(g, player) >= VictoryTarget

\* The holder the award loops start from: the first player in list order whose
\* flag is set, 0 for None.
FirstHolder(flags) ==
    IF \E p \in Players : flags[p] THEN Min({p \in Players : flags[p]}) ELSE 0

\* The second loop of check_longest_road from player k on; current_holder and
\* current_longest were fixed by the first loop.
RECURSIVE LongestRoadLoop(_, _, _, _)
LongestRoadLoop(g, current_holder, current_longest, k) ==
    IF k > NumPlayers THEN g
    ELSE LET road_length == GetLongestRoad(g, k)
             g1 == IF road_length >= AwardMinRoad
                   THEN IF current_holder = 0
                        THEN [g EXCEPT !.has_longest_road[k] = TRUE]
                        ELSE IF k # current_holder /\ road_length > current_longest
                        THEN [[g EXCEPT !.has_longest_road[current_holder] = FALSE]
                                 EXCEPT !.has_longest_road[k] = TRUE]
                        ELSE g
                   ELSE g
         IN  LongestRoadLoop(g1, current_holder, current_longest, k + 1)

\* check_longest_road with >= in place of >: a road as long as the holder's
\* takes the award.
CheckLongestRoadOnTie(g) ==
    LET current_holder == FirstHolder(g.has_longest_road)
        current_longest == IF current_holder = 0 THEN 0
                           ELSE GetLongestRoad(g, current_holder) - 1
    IN  CheckVictory(LongestRoadLoop(g, current_holder, current_longest, 1))

\* Game.check_longest_road
CheckLongestRoad(g) ==
    LET current_holder == FirstHolder(g.has_longest_road)
        current_longest == IF current_holder = 0 THEN 0
                           ELSE GetLongestRoad(g, current_holder)
    IN  CheckVictory(LongestRoadLoop(g, current_holder, current_longest, 1))

\* The second loop of check_largest_army from player k on.
RECURSIVE LargestArmyLoop(_, _, _, _)
LargestArmyLoop(g, current_holder, current_largest, k) ==
    IF k > NumPlayers THEN g
    ELSE LET g1 == IF g.knights_played[k] >= AwardMinKnights
                   THEN IF current_holder = 0
                        THEN [g EXCEPT !.has_largest_army[k] = TRUE]
                        ELSE IF k # current_holder /\ g.knights_played[k] > current_largest
                        THEN [[g EXCEPT !.has_largest_army[current_holder] = FALSE]
                                 EXCEPT !.has_largest_army[k] = TRUE]
                        ELSE g
                   ELSE g
         IN  LargestArmyLoop(g1, current_holder, current_largest, k + 1)

\* check_largest_army with >= in place of >: a knight count equal to the
\* holder's takes the award.
CheckLargestArmyOnTie(g) ==
    LET current_holder == FirstHolder(g.has_largest_army)
        current_largest == IF current_holder = 0 THEN 0
                           ELSE g.knights_played[current_holder] - 1
    IN  CheckVictory(LargestArmyLoop(g, current_holder, current_largest, 1))

\* Game.check_largest_army
CheckLargestArmy(g) ==
    LET current_holder == FirstHolder(g.has_largest_army)
        current_largest == IF current_holder = 0 THEN 0
                           ELSE g.knights_played[current_holder]
    IN  CheckVictory(LargestArmyLoop(g, current_holder, current_largest, 1))

(***************************************************************************)
(* Part 6.  Game operations.  For an operation Op, OpOk is the condition   *)
(* under which the call succeeds (no early return) and Op its effect.      *)
(***************************************************************************)

CurrentPlayer(g) == g.current_player_index + 1

SettlementMultiplier == 1
CityMultiplier == 2

\* Building.get_resource_multiplier
GetResourceMultiplier(building) ==
    IF building.kind = "city" THEN CityMultiplier ELSE SettlementMultiplier

\* Game.collect_starting_resources over the hexagons still to visit
RECURSIVE CollectStartingResources(_, _, _)
CollectStartingResources(g, player, hexes) ==
    IF hexes = {} THEN g
    ELSE LET hex == Min(hexes)
             resource == TerrainResource(g.terrain[hex])
             g1 == IF /\ g.terrain[hex] # "none"
                      /\ g.terrain[hex] # "desert"
                      /\ resource # "none"
                      /\ BankHasResource(g, resource, 1)
                   THEN [g EXCEPT !.resources[player][resource] = @ + 1,
                                  !.bank[resource] = @ - 1]
                   ELSE g
         IN  CollectStartingResources(g1, player, hexes \ {hex})

\* Game.advance_setup_turn
AdvanceSetupTurn(g) ==
    IF g.setup_forward
    THEN IF g.current_player_index < NumPlayers - 1
         THEN [g EXCEPT !.current_player_index = @ + 1]
         ELSE [g EXCEPT !.setup_forward = FALSE, !.setup_round = 2]
    ELSE IF g.current_player_index > 0
         THEN [g EXCEPT !.current_player_index = @ - 1]
         ELSE [g EXCEPT !.phase = "main", !.turn_number = 1]

\* Game.place_initial_settlement
PlaceInitialSettlementOk(g, player, plot) ==
    /\ g.phase = "setup"
    /\ CanBuildSettlement(g, player, plot, TRUE)

PlaceInitialSettlement(g, player, plot) ==
    LET g1 == [g EXCEPT !.building[plot] = [player |-> player, kind |-> "settlement"],
                        !.settlements[player] = Append(@, plot),
                        !.available_settlements[player] = @ - 1]
        g2 == IF g.setup_round = 2
              THEN CollectStartingResources(g1, player, AdjacentHexagons(plot))
              ELSE g1
    IN  [g2 EXCEPT !.settlements_placed_this_setup = @ + 1]

\* Game.place_initial_road
PlaceInitialRoadOk(g, player, path) ==
    /\ g.phase = "setup"
    /\ Len(g.settlements[player]) > 0
    /\ g.settlements[player][Len(g.settlements[player])] \in PathPlots(path)
    /\ CanBuildRoad(g, player, path)

PlaceInitialRoad(g, player, path) ==
    AdvanceSetupTurn([g EXCEPT !.road[path] = player,
                               !.available_roads[player] = @ - 1])

\* Game.force_random_discard: discard is the multiset the shuffle put first.
IsDiscard(g, player, discard) ==
    /\ \A r \in Resources : discard[r] <= g.resources[player][r]
    /\ discard["brick"] + discard["ore"] + discard["wood"] + discard["wool"] + discard["wheat"]
         = IF MustDiscardOnSeven(g, player) THEN GetDiscardCount(g, player) ELSE 0

ForceRandomDiscard(g, player, discard) ==
    [g EXCEPT !.resources[player] = [r \in Resources |-> @[r] - discard[r]],
              !.bank = [r \in Resources |-> @[r] + discard[r]]]

\* Game.handle_seven_rolled from player k on; discards[p] is what player p's
\* random discard removes (all zero for a player who need not discard).
RECURSIVE HandleSevenRolled(_, _, _)
HandleSevenRolled(g, discards, k) ==
    IF k > NumPlayers THEN g
    ELSE HandleSevenRolled(
            IF MustDiscardOnSeven(g, k) THEN ForceRandomDiscard(g, k, discards[k]) ELSE g,
            discards, k + 1)

\* The plot slots v .. 5 of a producing hexagon in Game.distribute_resources
RECURSIVE DistributeHexagon(_, _, _, _)
DistributeHexagon(g, hex, resource, v) ==
    IF v >= NumVertices THEN g
    ELSE LET plot == HexPlot(hex, v)
             building == g.building[plot]
             amount_to_give == Min({GetResourceMultiplier(building), g.bank[resource]})
             g1 == IF PlotOccupied(g, plot) /\ amount_to_give > 0
                   THEN [g EXCEPT !.resources[building.player][resource] = @ + amount_to_give,
                                  !.bank[resource] = @ - amount_to_give]
                   ELSE g
         IN  DistributeHexagon(g1, hex, resource, v + 1)

\* Game.distribute_resources over the producing hexagons still to visit
RECURSIVE DistributeHexagons(_, _)
DistributeHexagons(g, hexes) ==
    IF hexes = {} THEN g
    ELSE LET hex == Min(hexes)
         IN  DistributeHexagons(
                DistributeHexagon(g, hex, TerrainResource(g.terrain[hex]), 0),
                hexes \ {hex})

DistributeResources(g, roll_value) ==
    DistributeHexagons(g, {hex \in Hexagons :
                              /\ g.roll_value[hex] = roll_value
                              /\ ~g.has_robber[hex]
                              /\ TerrainResource(g.terrain[hex]) # "none"})

\* Game.start_turn with the dice total rolled
StartTurnOk(g) == g.phase = "main"

StartTurn(g, total, discards) ==
    IF total = 7 THEN HandleSevenRolled(g, discards, 1)
    ELSE DistributeResources(g, total)

\* move_robber leaving the robber flag of the hexagon it leaves set.
MoveRobberLeavesFlag(g, new_hex) ==
    [g EXCEPT !.has_robber[new_hex] = TRUE, !.robber_location = new_hex]
\* Board.move_robber
MoveRobber(g, new_hex) ==
    LET g1 == IF g.robber_location # 0
              THEN [g EXCEPT !.has_robber[g.robber_location] = FALSE]
              ELSE g
    IN  [g1 EXCEPT !.has_robber[new_hex] = TRUE, !.robber_location = new_hex]

\* Game.move_robber_action: victim 0 is None; stolen is the unit random.choice
\* takes from the victim's hand.
MoveRobberActionOk(g, player, new_hex) == new_hex # g.robber_location

VictimHasBuilding(g, new_hex, victim) ==
    \E v \in Vertices :
        /\ PlotOccupied(g, HexPlot(new_hex, v))
        /\ g.building[HexPlot(new_hex, v)].player = victim

\* The steal without the test that the victim has a building on the hexagon.
StealsAnywhere(g, new_hex, victim) ==
    /\ victim # 0
    /\ GetTotalResources(g, victim) > 0
Steals(g, new_hex, victim) ==
    /\ victim # 0
    /\ VictimHasBuilding(g, new_hex, victim)
    /\ GetTotalResources(g, victim) > 0

MoveRobberAction(g, player, new_hex, victim, stolen) ==
    LET g1 == MoveRobber(g, new_hex)
    IN  IF Steals(g, new_hex, victim)
        THEN [[g1 EXCEPT !.resources[victim][stolen] = @ - 1]
                 EXCEPT !.resources[player][stolen] = @ + 1]
        ELSE g1

\* build_road without the test that the player is the current player
BuildRoadOkAnyTurn(g, player, path) ==
    /\ g.phase = "main"
    /\ CanBuildRoad(g, player, path)
    /\ PayForRoadOk(g, player)

\* Game.build_road
BuildRoadOk(g, player, path) ==
    /\ g.phase = "main"
    /\ player = CurrentPlayer(g)
    /\ CanBuildRoad(g, player, path)
    /\ PayForRoadOk(g, player)

BuildRoad(g, player, path) ==
    LET g1 == PayForRoad(g, player)
    IN  CheckLongestRoad([g1 EXCEPT !.road[path] = player,
                                    !.available_roads[player] = @ - 1])

\* Game.build_settlement
BuildSettlementOk(g, player, plot) ==
    /\ g.phase = "main"
    /\ player = CurrentPlayer(g)
    /\ CanBuildSettlement(g, player, plot, FALSE)
    /\ CanAfford(g, player, SettlementCost)

BuildSettlement(g, player, plot) ==
    LET g1 == Pay(g, player, SettlementCost)
    IN  CheckVictory([g1 EXCEPT
            !.building[plot] = [player |-> player, kind |-> "settlement"],
            !.settlements[player] = Append(@, plot),
            !.available_settlements[player] = @ - 1])

\* Game.build_city
BuildCityOk(g, player, plot) ==
    /\ g.phase = "main"
    /\ player = CurrentPlayer(g)
    /\ CanBuildCity(g, player, plot)
    /\ CanAfford(g, player, CityCost)

\* build_city without the settlement piece going back to the player's supply
BuildCityKeepsPiece(g, player, plot) ==
    LET g1 == Pay(g, player, CityCost)
    IN  CheckVictory([g1 EXCEPT
            !.settlements[player] = SelectSeq(@, LAMBDA x : x # plot),
            !.building[plot] = [player |-> player, kind |-> "city"],
            !.available_cities[player] = @ - 1])
\* build_city leaving the upgraded settlement in the player's list of
\* settlements.
BuildCityKeepsSettlement(g, player, plot) ==
    LET g1 == Pay(g, player, CityCost)
    IN  CheckVictory([g1 EXCEPT
            !.available_settlements[player] = @ + 1,
            !.building[plot] = [player |-> player, kind |-> "city"],
            !.available_cities[player] = @ - 1])

BuildCity(g, player, plot) ==
    LET g1 == Pay(g, player, CityCost)
    IN  CheckVictory([g1 EXCEPT
            !.settlements[player] = SelectSeq(@, LAMBDA x : x # plot),
            !.available_settlements[player] = @ + 1,
            !.building[plot] = [player |-> player, kind |-> "city"],
            !.available_cities[player] = @ - 1])

\* DevelopmentCardDeck.cards_remaining
CardsRemaining(g) ==
    g.deck["monopoly"] + g.deck["road_building"] + g.deck["invention"]
        + g.deck["victory_point"] + g.deck["knight"]

\* Game.buy_development_card; card_type is the type of the card the draw pops.
\* With an empty deck the payment is handed back and the call returns None.
\* BuyDevelopmentCardPays: the call gets past its early returns and pays.
BuyDevelopmentCardPays(g, player) ==
    /\ g.phase = "main"
    /\ player = CurrentPlayer(g)
    /\ CanAfford(g, player, DevelopmentCardCost)

BuyDevelopmentCardOk(g, player, card_type) ==
    /\ BuyDevelopmentCardPays(g, player)
    /\ g.deck[card_type] > 0

\* buy_development_card leaving the drawn card in the deck
BuyDevelopmentCardKeepsDeck(g, player, card_type) ==
    LET g1 == Pay(g, player, DevelopmentCardCost)
    IN  IF CardsRemaining(g1) = 0
        THEN [g1 EXCEPT
                !.resources[player] =
                    [r \in Resources |-> @[r] + DevelopmentCardCost[r]],
                !.bank = [r \in Resources |-> @[r] - DevelopmentCardCost[r]]]
        ELSE [g1 EXCEPT
                !.development_cards[player] =
                    Append(@, [card_type |-> card_type,
                               has_been_played |-> FALSE,
                               bought |-> TRUE])]
\* buy_development_card without the refund made when the deck is empty
BuyDevelopmentCardNoRefund(g, player, card_type) ==
    LET g1 == Pay(g, player, DevelopmentCardCost)
    IN  IF CardsRemaining(g1) = 0
        THEN g1
        ELSE [g1 EXCEPT
                !.deck[card_type] = @ - 1,
                !.development_cards[player] =
                    Append(@, [card_type |-> card_type,
                               has_been_played |-> FALSE,
                               bought |-> TRUE])]

BuyDevelopmentCard(g, player, card_type) ==
    LET g1 == Pay(g, player, DevelopmentCardCost)
    IN  IF CardsRemaining(g1) = 0
        THEN [g1 EXCEPT
                !.resources[player] =
                    [r \in Resources |-> @[r] + DevelopmentCardCost[r]],
                !.bank = [r \in Resources |-> @[r] - DevelopmentCardCost[r]]]
        ELSE [g1 EXCEPT
                !.deck[card_type] = @ - 1,
                !.development_cards[player] =
                    Append(@, [card_type |-> card_type,
                               has_been_played |-> FALSE,
                               bought |-> TRUE])]

\* MonopolyCard.execute_monopoly
ExecuteMonopoly(g, player, resource) ==
    LET others == Players \ {player}
        RECURSIVE Collected(_)
        Collected(S) == IF S = {} THEN 0
                        ELSE LET q == Min(S) IN g.resources[q][resource] + Collected(S \ {q})
        total_collected == Collected(others)
        available == Min({total_collected, g.bank[resource]})
        g1 == [g EXCEPT !.resources =
                  [q \in Players |-> IF q = player THEN g.resources[q]
                                     ELSE [g.resources[q] EXCEPT ![resource] = 0]]
                      \o << >>]
    IN  [g1 EXCEPT !.resources[player][resource] = @ + available,
                   !.bank[resource] = @ - available]

\* InventionCard.execute_invention
ExecuteInvention(g, player, resource1, resource2) ==
    LET g1 == IF g.bank[resource1] > 0
              THEN [g EXCEPT !.resources[player][resource1] = @ + 1,
                             !.bank[resource1] = @ - 1]
              ELSE g
    IN  IF g1.bank[resource2] > 0
        THEN [g1 EXCEPT !.resources[player][resource2] = @ + 1,
                        !.bank[resource2] = @ - 1]
        ELSE g1

\* DevelopmentCard.play of the card at index i (from 1) of the player's cards:
\* MonopolyCard, RoadBuildingCard, InventionCard, VictoryPointCard, KnightCard
CardPlay(g, player, i) ==
    LET card_type == g.development_cards[player][i].card_type
        g1 == [g EXCEPT !.development_cards[player][i].has_been_played = TRUE]
    IN  CASE card_type = "road_building" ->
                [g1 EXCEPT !.free_roads_remaining[player] = FreeRoads]
          [] card_type = "victory_point" ->
                [g1 EXCEPT !.victory_point_cards_played[player] = @ + 1]
          [] card_type = "knight" ->
                CheckLargestArmy([g1 EXCEPT !.knights_played[player] = @ + 1])
          [] OTHER -> g1

\* Game.play_development_card; i is card_index + 1
PlayDevelopmentCardOk(g, player, i) ==
    /\ g.phase = "main"
    /\ player = CurrentPlayer(g)
    /\ i \in 1..Len(g.development_cards[player])
    /\ i \in GetPlayableDevelopmentCards(g, player)

PlayDevelopmentCard(g, player, i) ==
    LET card_type == g.development_cards[player][i].card_type
        g1 == IF card_type # "victory_point"
              THEN [g EXCEPT !.development_card_played_this_turn[player] = TRUE]
              ELSE g
        g2 == CardPlay(g1, player, i)
    IN  IF card_type = "victory_point" THEN CheckVictory(g2) ELSE g2

\* propose_trade without the test of what the target holds
ProposeTradeOkUnasked(g, proposer, target, offer, request) ==
    /\ g.phase = "main"
    /\ proposer = CurrentPlayer(g)
    /\ \A r \in DOMAIN offer : r \notin DOMAIN request
    /\ \A r \in DOMAIN offer : g.resources[proposer][r] >= offer[r]

\* Game.propose_trade; offer and request are functions from the resources they
\* name to amounts.
ProposeTradeOk(g, proposer, target, offer, request) ==
    /\ g.phase = "main"
    /\ proposer = CurrentPlayer(g)
    /\ \A r \in DOMAIN offer : r \notin DOMAIN request
    /\ \A r \in DOMAIN offer : g.resources[proposer][r] >= offer[r]
    /\ \A r \in DOMAIN request : g.resources[target][r] >= request[r]

Amount(dict, r) == IF r \in DOMAIN dict THEN dict[r] ELSE 0

ProposeTrade(g, proposer, target, offer, request) ==
    LET g1 == [g EXCEPT !.resources[proposer] = [r \in Resources |-> @[r] - Amount(offer, r)]]
        g2 == [g1 EXCEPT !.resources[target] = [r \in Resources |-> @[r] + Amount(offer, r)]]
        g3 == [g2 EXCEPT !.resources[target] = [r \in Resources |-> @[r] - Amount(request, r)]]
    IN  [g3 EXCEPT !.resources[proposer] = [r \in Resources |-> @[r] + Amount(request, r)]]

\* bank_trade without the test of the phase
BankTradeOkAnyPhase(g, player, give_resource, receive_resource) ==
    /\ player = CurrentPlayer(g)
    /\ TradeWithPlayerOk(g, player, give_resource,
                         GetBestTradeRatio(g, player, give_resource), receive_resource)

\* Game.bank_trade
BankTradeOk(g, player, give_resource, receive_resource) ==
    /\ g.phase = "main"
    /\ player = CurrentPlayer(g)
    /\ TradeWithPlayerOk(g, player, give_resource,
                         GetBestTradeRatio(g, player, give_resource), receive_resource)

BankTrade(g, player, give_resource, receive_resource) ==
    TradeWithPlayer(g, player, give_resource,
                    GetBestTradeRatio(g, player, give_resource), receive_resource)

\* Game.end_turn
EndTurnOk(g) == g.phase = "main"

\* cards_bought_this_turn.clear(): no card of the player is marked bought
ClearBought(cards) ==
    [i \in 1..Len(cards) |-> [cards[i] EXCEPT !.bought = FALSE]] \o << >>

\* end_turn leaving the cards bought this turn marked.
EndTurnKeepsBought(g) ==
    LET player == CurrentPlayer(g)
    IN  [g EXCEPT
            !.development_card_played_this_turn[player] = FALSE,
            !.current_player_index = (@ + 1) % NumPlayers,
            !.turn_number = @ + 1]
EndTurn(g) ==
    LET player == CurrentPlayer(g)
    IN  [g EXCEPT
            !.development_card_played_this_turn[player] = FALSE,
            !.development_cards[player] = ClearBought(g.development_cards[player]),
            !.current_player_index = (@ + 1) % NumPlayers,
            !.turn_number = @ + 1]

(***************************************************************************)
(* Part 7.  Runs of operations.  A call is a record naming the operation   *)
(* and its arguments.  A call that fails leaves at one of the operation's  *)
(* early returns, which all come before its first assignment; only         *)
(* buy_development_card can fail after it has paid (the deck is empty),    *)
(* and then runs its refund.                                               *)
(***************************************************************************)

NoDiscards == [p \in Players |-> NoCost]

Call(g, c) ==
    CASE c.op = "place_initial_settlement" ->
            IF PlaceInitialSettlementOk(g, c.player, c.plot)
            THEN PlaceInitialSettlement(g, c.player, c.plot) ELSE g
      [] c.op = "place_initial_road" ->
            IF PlaceInitialRoadOk(g, c.player, c.path)
            THEN PlaceInitialRoad(g, c.player, c.path) ELSE g
      [] c.op = "start_turn" ->
            IF StartTurnOk(g) THEN StartTurn(g, c.total, c.discards) ELSE g
      [] c.op = "move_robber_action" ->
            IF MoveRobberActionOk(g, c.player, c.hex)
            THEN MoveRobberAction(g, c.player, c.hex, c.victim, c.stolen) ELSE g
      [] c.op = "build_road" ->
            IF BuildRoadOk(g, c.player, c.path) THEN BuildRoad(g, c.player, c.path) ELSE g
      [] c.op = "build_settlement" ->
            IF BuildSettlementOk(g, c.player, c.plot)
            THEN BuildSettlement(g, c.player, c.plot) ELSE g
      [] c.op = "build_city" ->
            IF BuildCityOk(g, c.player, c.plot) THEN BuildCity(g, c.player, c.plot) ELSE g
      [] c.op = "buy_development_card" ->
            IF \/ BuyDevelopmentCardOk(g, c.player, c.card_type)
               \/ BuyDevelopmentCardPays(g, c.player) /\ CardsRemaining(g) = 0
            THEN BuyDevelopmentCard(g, c.player, c.card_type) ELSE g
      [] c.op = "play_development_card" ->
            IF PlayDevelopmentCardOk(g, c.player, c.index)
            THEN PlayDevelopmentCard(g, c.player, c.index) ELSE g
      [] c.op = "execute_monopoly" -> ExecuteMonopoly(g, c.player, c.resource)
      [] c.op = "execute_invention" ->
            ExecuteInvention(g, c.player, c.resource1, c.resource2)
      [] c.op = "propose_trade" ->
            IF ProposeTradeOk(g, c.player, c.target, c.offer, c.request)
            THEN ProposeTrade(g, c.player, c.target, c.offer, c.request) ELSE g
      [] c.op = "bank_trade" ->
            IF BankTradeOk(g, c.player, c.give, c.receive)
            THEN BankTrade(g, c.player, c.give, c.receive) ELSE g
      [] c.op = "end_turn" -> IF EndTurnOk(g) THEN EndTurn(g) ELSE g
      [] c.op = "check_victory" -> CheckVictory(g)
      [] OTHER -> g

\* The call returns a success result (True, a card type, the dice); a call of
\* execute_monopoly or execute_invention returns nothing and cannot fail.  The
\* Board queries can_build_settlement, can_build_road and can_build_city
\* change nothing and return their answer.
CallOk(g, c) ==
    CASE c.op = "place_initial_settlement" -> PlaceInitialSettlementOk(g, c.player, c.plot)
      [] c.op = "place_initial_road" -> PlaceInitialRoadOk(g, c.player, c.path)
      [] c.op = "start_turn" -> StartTurnOk(g)
      [] c.op = "move_robber_action" -> MoveRobberActionOk(g, c.player, c.hex)
      [] c.op = "build_road" -> BuildRoadOk(g, c.player, c.path)
      [] c.op = "build_settlement" -> BuildSettlementOk(g, c.player, c.plot)
      [] c.op = "build_city" -> BuildCityOk(g, c.player, c.plot)
      [] c.op = "buy_development_card" -> BuyDevelopmentCardOk(g, c.player, c.card_type)
      [] c.op = "play_development_card" -> PlayDevelopmentCardOk(g, c.player, c.index)
      [] c.op = "propose_trade" ->
            ProposeTradeOk(g, c.player, c.target, c.offer, c.request)
      [] c.op = "bank_trade" -> BankTradeOk(g, c.player, c.give, c.receive)
      [] c.op = "end_turn" -> EndTurnOk(g)
      [] c.op = "check_victory" -> CheckVictoryOk(g)
      [] c.op = "can_build_settlement" ->
            CanBuildSettlement(g, c.player, c.plot, c.initial_placement)
      [] c.op = "can_build_road" -> CanBuildRoad(g, c.player, c.path)
      [] c.op = "can_build_city" -> CanBuildCity(g, c.player, c.plot)
      [] OTHER -> TRUE

\* The calls by name
PlaceSettlement(player, plot) ==
    [op |-> "place_initial_settlement", player |-> player, plot |-> plot]
PlaceRoad(player, path) == [op |-> "place_initial_road", player |-> player, path |-> path]
Roll(total) == [op |-> "start_turn", total |-> total, discards |-> NoDiscards]
Robber(player, hex, victim, stolen) ==
    [op |-> "move_robber_action", player |-> player, hex |-> hex,
     victim |-> victim, stolen |-> stolen]
Road(player, path) == [op |-> "build_road", player |-> player, path |-> path]
Settlement(player, plot) == [op |-> "build_settlement", player |-> player, plot |-> plot]
CityCall(player, plot) == [op |-> "build_city", player |-> player, plot |-> plot]
Buy(player, card_type) ==
    [op |-> "buy_development_card", player |-> player, card_type |-> card_type]
Play(player, i) == [op |-> "play_development_card", player |-> player, index |-> i]
Monopoly(player, resource) ==
    [op |-> "execute_monopoly", player |-> player, resource |-> resource]
Invention(player, resource1, resource2) ==
    [op |-> "execute_invention", player |-> player,
     resource1 |-> resource1, resource2 |-> resource2]
Trade(player, target, offer, request) ==
    [op |-> "propose_trade", player |-> player, target |-> target,
     offer |-> offer, request |-> request]
BankTradeCall(player, give, receive) ==
    [op |-> "bank_trade", player |-> player, give |-> give, receive |-> receive]
EndTurnCall == [op |-> "end_turn"]
CheckVictoryCall == [op |-> "check_victory"]
CanSettle(player, plot, initial_placement) ==
    [op |-> "can_build_settlement", player |-> player, plot |-> plot,
     initial_placement |-> initial_placement]
CanRoad(player, path) == [op |-> "can_build_road", player |-> player, path |-> path]
CanCity(player, plot) == [op |-> "can_build_city", player |-> player, plot |-> plot]

\* The calls lo .. hi of a run applied in order (split in halves to keep the
\* evaluation shallow).
RECURSIVE RunCalls(_, _, _, _)
RunCalls(g, calls, lo, hi) ==
    IF lo > hi THEN g
    ELSE IF lo = hi THEN Call(g, calls[lo])
    ELSE LET mid == (lo + hi) \div 2
             first == RunCalls(g, calls, lo, mid)
         IN  IF first.turn_number >= 0 THEN RunCalls(first, calls, mid + 1, hi) ELSE first

Run(g, calls) == RunCalls(g, calls, 1, Len(calls))

(***************************************************************************)
(* Part 8.  The state machine.  board and ctor_step are the Board under    *)
(* construction and the constructor's position; game is the Game; ncalls   *)
(* is the number of operations issued on the Game since its initial state; *)
(* returned names the last operation called, tells whether it was called   *)
(* for the current player (true where the operation takes no player) and   *)
(* whether it returned a success result and, for start_turn, gives the     *)
(* dice total it returned                                                  *)
(* (0: the (0, 0, 0) of a refused call; 0 also for every other operation). *)
(***************************************************************************)

vars == <<board, ctor_step, game, ncalls, returned>>

\* No operation has been called on the game
NoCall == [op |-> "none", own_turn |-> TRUE, ok |-> TRUE, total |-> 0]

\* Bounds of the exploration
MaxCalls == 1
MaxPlot == 10
MaxPath == 11
MaxHex == 2
MaxShift == 1
MaxUnits == 1
MaxKinds == 2

PlayPlots == {plot \in Plots : plot <= MaxPlot}
PlayPaths == {path \in Paths : path <= MaxPath}
PlayHexes == {hex \in Hexagons : hex <= MaxHex}
DiceTotals == 2..12

\* Board.__init__: _create_board_structure, then _create_ports
InitBoard ==
    /\ board = EmptyBoard
    /\ ctor_step = 0
    /\ game = NewGame
    /\ ncalls = 0
    /\ returned = NoCall

CreatePlots ==
    /\ ctor_step < PlotSteps
    /\ board' = BoardStep(board, ctor_step)
    /\ ctor_step' = ctor_step + 1
    /\ UNCHANGED <<game, ncalls, returned>>

CreatePaths ==
    /\ ctor_step >= PlotSteps
    /\ ctor_step < PlotSteps + PathSteps
    /\ board' = BoardStep(board, ctor_step)
    /\ ctor_step' = ctor_step + 1
    /\ UNCHANGED <<game, ncalls, returned>>

CreatePorts ==
    /\ ctor_step >= PlotSteps + PathSteps
    /\ ctor_step < TotalSteps
    /\ board' = BoardStep(board, ctor_step)
    /\ ctor_step' = ctor_step + 1
    /\ UNCHANGED <<game, ncalls, returned>>

NextBoard == CreatePlots \/ CreatePaths \/ CreatePorts

SpecBoard == InitBoard /\ [][NextBoard]_vars

BoardBuilt == ctor_step = TotalSteps

\* Game.setup_game: the board set up with some shuffle of terrains and numbers
\* (the players are numbered by their shuffled order).
SetupGame(k) ==
    SetupRandomBoard(NewGame, Shuffled(TerrainList, 4, k), Shuffled(RollValueList, 7, k))

\* A game in state g on the constructed board, no call issued yet
Started(g) ==
    /\ board = BuiltBoard
    /\ ctor_step = TotalSteps
    /\ game = g
    /\ ncalls = 0
    /\ returned = NoCall

\* One more call is issued on the game
Issue ==
    /\ ncalls < MaxCalls
    /\ ncalls' = ncalls + 1
    /\ UNCHANGED <<board, ctor_step>>

\* The call c is made and returns, leaving the game in state g
Returns(c, g) ==
    /\ game' = g
    /\ returned' = [op |-> c.op,
                    own_turn |-> "player" \in DOMAIN c => c.player = CurrentPlayer(game),
                    ok |-> CallOk(game, c),
                    total |-> IF c.op = "start_turn" /\ CallOk(game, c) THEN c.total ELSE 0]

place_initial_settlement ==
    /\ Issue
    /\ \E player \in Players, plot \in PlayPlots :
          LET c == PlaceSettlement(player, plot) IN Returns(c, Call(game, c))

place_initial_road ==
    /\ Issue
    /\ \E player \in Players, path \in PlayPaths :
          LET c == PlaceRoad(player, path) IN Returns(c, Call(game, c))

\* The discards force_random_discard can make for one player, and for all
PlayerDiscards(g, player) ==
    {discard \in [Resources -> 0..GetDiscardCount(g, player)] : IsDiscard(g, player, discard)}

RECURSIVE DiscardChoices(_, _)
DiscardChoices(g, k) ==
    IF k = 0 THEN {<< >>}
    ELSE {Append(discards, discard) :
              discards \in DiscardChoices(g, k - 1), discard \in PlayerDiscards(g, k)}

start_turn ==
    /\ Issue
    /\ \E total \in DiceTotals :
          IF total = 7 /\ StartTurnOk(game)
          THEN \E discards \in DiscardChoices(game, NumPlayers) :
                  LET c == [Roll(total) EXCEPT !.discards = discards]
                  IN  Returns(c, Call(game, c))
          ELSE Returns(Roll(total), Call(game, Roll(total)))

move_robber_action ==
    /\ Issue
    /\ \E player \in Players, new_hex \in PlayHexes, victim \in Players \cup {0} :
          IF MoveRobberActionOk(game, player, new_hex) /\ Steals(game, new_hex, victim)
          THEN \E stolen \in {r \in Resources : game.resources[victim][r] > 0} :
                  LET c == Robber(player, new_hex, victim, stolen)
                  IN  Returns(c, Call(game, c))
          ELSE LET c == Robber(player, new_hex, victim, "brick")
               IN  Returns(c, Call(game, c))

build_road ==
    /\ Issue
    /\ \E player \in Players, path \in PlayPaths :
          LET c == Road(player, path) IN Returns(c, Call(game, c))

build_settlement ==
    /\ Issue
    /\ \E player \in Players, plot \in PlayPlots :
          LET c == Settlement(player, plot) IN Returns(c, Call(game, c))

build_city ==
    /\ Issue
    /\ \E player \in Players, plot \in PlayPlots :
          LET c == CityCall(player, plot) IN Returns(c, Call(game, c))

\* The types of card the draw can pop (any one stands for the draw from an
\* empty deck, which pops nothing)
Draws(g) ==
    IF CardsRemaining(g) = 0 THEN {"knight"}
    ELSE {card_type \in CardTypes : g.deck[card_type] > 0}

buy_development_card ==
    /\ Issue
    /\ \E player \in Players, card_type \in Draws(game) :
          LET c == Buy(player, card_type) IN Returns(c, Call(game, c))

\* play_development_card, then the call the played card asks of the caller:
\* execute_monopoly or execute_invention with the resources chosen.
FollowUp(g, player, card_type, resource1, resource2) ==
    CASE card_type = "monopoly"  -> ExecuteMonopoly(g, player, resource1)
      [] card_type = "invention" -> ExecuteInvention(g, player, resource1, resource2)
      [] OTHER                   -> g

\* The card indices tried: those of the player's cards and the one past them
play_development_card ==
    /\ Issue
    /\ \E player \in Players :
       \E i \in 1..(Len(game.development_cards[player]) + 1) :
          LET c == Play(player, i)
          IN  IF CallOk(game, c)
              THEN LET card_type == game.development_cards[player][i].card_type
                   IN  \E resource1 \in (IF card_type \in {"monopoly", "invention"}
                                         THEN Resources ELSE {"brick"}) :
                       \E resource2 \in (IF card_type = "invention"
                                         THEN Resources ELSE {"brick"}) :
                          Returns(c, FollowUp(Call(game, c), player, card_type,
                                              resource1, resource2))
              ELSE Returns(c, Call(game, c))

\* The offers and requests tried: one unit of one resource each way, or a gift
Units == {r :> 1 : r \in Resources}

propose_trade ==
    /\ Issue
    /\ \E proposer \in Players, target \in Players :
       \E offer \in Units, request \in Units \cup {<< >>} :
          LET c == Trade(proposer, target, offer, request) IN Returns(c, Call(game, c))

bank_trade ==
    /\ Issue
    /\ \E player \in Players, give_resource \in Resources, receive_resource \in Resources :
          LET c == BankTradeCall(player, give_resource, receive_resource)
          IN  Returns(c, Call(game, c))

end_turn ==
    /\ Issue
    /\ Returns(EndTurnCall, Call(game, EndTurnCall))

(***************************************************************************)
(* Part 9.  Initial states: the game as set up, and games some way into    *)
(* play, each the result of a run of calls on the game as set up.          *)
(***************************************************************************)

\* A four-player game of road building: the setup placements in snake
\* order, then turns in which player 1 extends its roads to a chain of four
\* and player 2 builds a chain of five and takes Longest Road.
RoadGame ==
    << PlaceSettlement(1, 4), PlaceRoad(1, 3), PlaceSettlement(2, 9), PlaceRoad(2, 9),
       PlaceSettlement(3, 41), PlaceRoad(3, 62), PlaceSettlement(4, 33), PlaceRoad(4, 49),
       PlaceSettlement(4, 50), PlaceRoad(4, 78), PlaceSettlement(3, 46), PlaceRoad(3, 71),
       PlaceSettlement(2, 13), PlaceRoad(2, 14), PlaceSettlement(1, 6), PlaceRoad(1, 6),
       Roll(2), EndTurnCall, Roll(10), EndTurnCall,
       Roll(2), EndTurnCall, Roll(10), EndTurnCall,
       Roll(6), Trade(1, 2, ("brick" :> 1), ("wood" :> 1)), Trade(1, 2, ("brick" :> 1), ("wood" :> 1)), Road(1, 2),
       EndTurnCall, Roll(8), EndTurnCall, Roll(4),
       EndTurnCall, Roll(3), EndTurnCall, Roll(8),
       Buy(1, "knight"), EndTurnCall, Roll(10), Road(2, 16),
       EndTurnCall, Roll(2), EndTurnCall, Roll(3),
       EndTurnCall, Roll(3), Road(1, 1), Trade(1, 2, ("brick" :> 1), ("wood" :> 1)),
       EndTurnCall, Roll(3), EndTurnCall, Roll(3),
       EndTurnCall, Roll(3), EndTurnCall, Roll(3),
       Trade(1, 2, ("wool" :> 1), ("wood" :> 1)), EndTurnCall, Roll(10), Road(2, 15),
       Road(2, 8), EndTurnCall, Roll(3), EndTurnCall,
       Roll(3), EndTurnCall, Roll(3), Road(1, 4) >>

\* A four-player game of development cards: players 1 and 2 buy and play
\* Knights, player 1 takes Largest Army, upgrades both settlements and plays
\* VictoryPoint cards up to nine points.
KnightGame ==
    << PlaceSettlement(1, 4), PlaceRoad(1, 3), PlaceSettlement(2, 13), PlaceRoad(2, 14),
       PlaceSettlement(3, 41), PlaceRoad(3, 62), PlaceSettlement(4, 33), PlaceRoad(4, 49),
       PlaceSettlement(4, 50), PlaceRoad(4, 78), PlaceSettlement(3, 46), PlaceRoad(3, 71),
       PlaceSettlement(2, 27), PlaceRoad(2, 38), PlaceSettlement(1, 15), PlaceRoad(1, 18),
       Roll(6), Buy(1, "knight"), EndTurnCall, Roll(5),
       Buy(2, "knight"), EndTurnCall, Roll(3), EndTurnCall,
       Roll(8), EndTurnCall, Roll(6), Play(1, 1),
       Robber(1, 1, 0, "brick"), Buy(1, "knight"), EndTurnCall, Roll(5),
       Play(2, 1), Robber(2, 15, 0, "brick"), Buy(2, "knight"), EndTurnCall,
       Roll(3), EndTurnCall, Roll(8), EndTurnCall,
       Roll(6), Play(1, 2), Robber(1, 1, 0, "brick"), Buy(1, "knight"),
       EndTurnCall, Roll(5), Play(2, 2), Robber(2, 15, 0, "brick"),
       Buy(2, "knight"), EndTurnCall, Roll(3), EndTurnCall,
       Roll(6), EndTurnCall, Roll(6), Buy(1, "monopoly"),
       EndTurnCall, Roll(12), EndTurnCall, Roll(12),
       EndTurnCall, Roll(12), EndTurnCall, Roll(12),
       Play(1, 3), Robber(1, 1, 0, "brick"), EndTurnCall, Roll(5),
       Buy(2, "knight"), Play(2, 3), Robber(2, 15, 0, "brick"), EndTurnCall,
       Roll(12), EndTurnCall, Roll(12), EndTurnCall,
       Roll(12), EndTurnCall, Roll(12), EndTurnCall,
       Roll(6), EndTurnCall, Roll(6), EndTurnCall,
       Roll(8), CityCall(1, 4), EndTurnCall, Roll(6),
       EndTurnCall, Roll(6), EndTurnCall, Roll(8),
       EndTurnCall, Roll(4), CityCall(1, 15), Buy(1, "victory_point"),
       Play(1, 5), EndTurnCall, Roll(6), EndTurnCall,
       Roll(6), EndTurnCall, Roll(4), EndTurnCall,
       Roll(8), Buy(1, "victory_point"), Play(1, 6), Buy(1, "victory_point"),
       Play(1, 7), Buy(1, "victory_point") >>

\* A four-player game in which players 1 and 2 buy the whole deck of
\* development cards; player 1 plays a Knight and buys a VictoryPoint card in
\* one turn, player 2 comes to hold nine resources.
DeckGame ==
    << PlaceSettlement(1, 4), PlaceRoad(1, 3), PlaceSettlement(2, 13), PlaceRoad(2, 14),
       PlaceSettlement(3, 41), PlaceRoad(3, 62), PlaceSettlement(4, 48), PlaceRoad(4, 74),
       PlaceSettlement(4, 50), PlaceRoad(4, 78), PlaceSettlement(3, 46), PlaceRoad(3, 71),
       PlaceSettlement(2, 27), PlaceRoad(2, 38), PlaceSettlement(1, 15), PlaceRoad(1, 18),
       Roll(6), Buy(1, "knight"), EndTurnCall, Roll(5),
       Buy(2, "knight"), EndTurnCall, Roll(3), EndTurnCall,
       Roll(8), EndTurnCall, Roll(6), Buy(1, "knight"),
       EndTurnCall, Roll(5), Buy(2, "knight"), EndTurnCall,
       Roll(3), EndTurnCall, Roll(12), EndTurnCall,
       Roll(6), Play(1, 1), Buy(1, "victory_point"), EndTurnCall,
       Roll(5), Buy(2, "knight"), EndTurnCall, Roll(3),
       EndTurnCall, Roll(8), EndTurnCall, Roll(6),
       Buy(1, "knight"), EndTurnCall, Roll(5), Buy(2, "knight"),
       EndTurnCall, Roll(3), EndTurnCall, Roll(12),
       EndTurnCall, Roll(6), Buy(1, "knight"), EndTurnCall,
       Roll(5), Buy(2, "knight"), EndTurnCall, Roll(3),
       EndTurnCall, Roll(8), EndTurnCall, Roll(6),
       Buy(1, "knight"), EndTurnCall, Roll(5), Buy(2, "knight"),
       EndTurnCall, Roll(3), EndTurnCall, Roll(12),
       EndTurnCall, Roll(6), Buy(1, "knight"), EndTurnCall,
       Roll(5), Buy(2, "knight"), EndTurnCall, Roll(3),
       EndTurnCall, Roll(8), EndTurnCall, Roll(6),
       Buy(1, "knight"), EndTurnCall, Roll(5), Buy(2, "victory_point"),
       EndTurnCall, Roll(3), EndTurnCall, Roll(12),
       EndTurnCall, Roll(6), Buy(1, "victory_point"), EndTurnCall,
       Roll(5), Buy(2, "victory_point"), EndTurnCall, Roll(3),
       EndTurnCall, Roll(8), EndTurnCall, Roll(6),
       Buy(1, "victory_point"), EndTurnCall, Roll(5), Buy(2, "monopoly"),
       EndTurnCall, Roll(3), EndTurnCall, Roll(12),
       EndTurnCall, Roll(6), Buy(1, "monopoly"), EndTurnCall,
       Roll(5), Buy(2, "road_building"), EndTurnCall, Roll(3),
       EndTurnCall, Roll(8), EndTurnCall, Roll(6),
       Buy(1, "road_building"), EndTurnCall, Roll(5), Buy(2, "invention"),
       EndTurnCall, Roll(3), EndTurnCall, Roll(12),
       EndTurnCall, Roll(6), Buy(1, "invention"), EndTurnCall,
       Roll(5) >>

\* A four-player game of ports and roads: player 1 settles on a 3:1 port and
\* builds a road up to player 2's settlement, player 2 settles on the ore
\* port; player 1 plays Road Building, builds two free roads, trades wool for
\* wood with the bank and builds a third road; the bank runs out of wool.
PortGame ==
    << PlaceSettlement(1, 4), PlaceRoad(1, 11), PlaceSettlement(2, 9), PlaceRoad(2, 16),
       PlaceSettlement(3, 41), PlaceRoad(3, 62), PlaceSettlement(4, 48), PlaceRoad(4, 74),
       PlaceSettlement(4, 50), PlaceRoad(4, 78), PlaceSettlement(3, 46), PlaceRoad(3, 71),
       PlaceSettlement(2, 13), PlaceRoad(2, 14), PlaceSettlement(1, 6), PlaceRoad(1, 6),
       Roll(2), Trade(1, 2, ("brick" :> 1), ("wood" :> 1)), Road(1, 10), EndTurnCall,
       Roll(6), EndTurnCall, Roll(8), EndTurnCall,
       Roll(4), EndTurnCall, Roll(2), Buy(1, "road_building"),
       EndTurnCall, Roll(4), EndTurnCall, Roll(4),
       EndTurnCall, Roll(4), EndTurnCall, Roll(4),
       Play(1, 1), Road(1, 3), Road(1, 4), BankTradeCall(1, "wool", "wood"),
       Road(1, 5), EndTurnCall, Roll(4), EndTurnCall,
       Roll(4), EndTurnCall, Roll(4), EndTurnCall,
       Roll(2) >>

\* RoadGame is explored from these points (calls issued): 1, 14, 15, 46, 57, 60, 67, 68
RoadPoints == {1, 14, 15, 46, 57, 60, 67, 68}

\* KnightGame is explored from these points (calls issued): 1, 14, 15, 64, 69, 79, 85, 110
KnightPoints == {1, 14, 15, 64, 69, 79, 85, 110}

\* DeckGame is explored from these points (calls issued): 39, 127, 141
DeckPoints == {39, 127, 141}

\* PortGame is explored from these points (calls issued): 19, 21, 36, 37, 38, 39, 40, 49
PortPoints == {19, 21, 36, 37, 38, 39, 40, 49}

\* A game in which player 1 uses up its pieces (no call of
\* place_initial_settlement or place_initial_road checks whose turn it is, and
\* start_turn may be called again within a turn): its five settlements are
\* placed after 12 calls, still in setup, and its fifteen roads after 30
PieceGame ==
    << PlaceSettlement(1, 1), PlaceRoad(1, 1), PlaceRoad(1, 6), PlaceSettlement(1, 3),
       PlaceRoad(1, 2), PlaceRoad(1, 7), PlaceSettlement(1, 5), PlaceRoad(1, 4),
       PlaceRoad(1, 5), PlaceSettlement(1, 12), PlaceRoad(1, 13), PlaceSettlement(1, 20),
       PlaceRoad(1, 25), Roll(2), Roll(2), Roll(2),
       Roll(10), Roll(10), Roll(10), Roll(10),
       Roll(10), Roll(10), Roll(10), Road(1, 14),
       Road(1, 21), Road(1, 24), Road(1, 26), Road(1, 31),
       Road(1, 32), Road(1, 8) >>

\* The setup of PieceGame followed by player 1 upgrading four settlements: no
\* city piece is left, the settlement on plot 1 remains, and player 1 holds
\* the price of a city and 9 victory points
CityGame ==
    SubSeq(PieceGame, 1, 13) \o
    << Roll(8), Roll(6), Roll(6), CityCall(1, 3),
       Roll(8), Roll(6), Roll(6), CityCall(1, 5),
       Roll(8), Roll(6), CityCall(1, 20), Roll(6),
       Roll(6), CityCall(1, 12), Roll(8), Roll(6) >>

\* A game in which player 1 wins Longest Road with the chain of roads 7, 8,
\* 12, 13, 14, players 2 and 3 then build chains of five of their own, and
\* player 3 settles on plot 8 in the middle of player 1's chain; player 3 is
\* left with the price of one more road
SplitGame ==
    << PlaceSettlement(1, 3), PlaceRoad(1, 7), PlaceSettlement(1, 13), PlaceRoad(1, 14),
       PlaceSettlement(3, 10), PlaceRoad(3, 10), PlaceRoad(3, 25), PlaceSettlement(3, 16),
       PlaceSettlement(3, 19), PlaceSettlement(2, 49), PlaceRoad(2, 77), PlaceRoad(2, 78),
       PlaceSettlement(2, 1), PlaceSettlement(2, 26), PlaceSettlement(2, 47), PlaceRoad(2, 79),
       PlaceRoad(2, 74), Roll(2), Roll(2), Roll(2),
       Roll(10), Roll(10), Roll(10), Road(1, 8),
       Road(1, 12), Road(1, 13), EndTurnCall, Roll(12),
       Road(2, 75), EndTurnCall, Roll(12), Roll(12),
       Roll(10), Road(3, 26), Road(3, 45), Road(3, 9),
       Settlement(3, 8) >>

\* Game.setup_game has run; no call has been issued
Init == \E k \in 0..MaxShift : Started(SetupGame(k))

\* A run of calls issued in a row on the game as set up; what follows is
\* explored from its result.
Replay(calls) ==
    /\ ncalls = 0
    /\ game = SetupGame(0)
    /\ game' = Run(game, calls)
    /\ UNCHANGED <<board, ctor_step, ncalls, returned>>

Scripts ==
    {SubSeq(RoadGame, 1, n) : n \in RoadPoints}
        \cup {SubSeq(KnightGame, 1, n) : n \in KnightPoints}
        \cup {SubSeq(DeckGame, 1, n) : n \in DeckPoints}

replay == \E calls \in Scripts : Replay(calls)

Operation ==
    \/ place_initial_settlement
    \/ place_initial_road
    \/ start_turn
    \/ move_robber_action
    \/ build_road
    \/ build_settlement
    \/ build_city
    \/ buy_development_card
    \/ play_development_card
    \/ propose_trade
    \/ bank_trade
    \/ end_turn

Next == replay \/ Operation

Spec == Init /\ [][Next]_vars

\* propose_trade on its own: one call with any offer and any request of up to
\* MaxKinds resources and up to MaxUnits units of each, made in the game as
\* set up and at points of RoadGame; returned also keeps the call.
Amounts ==
    UNION {[kinds -> 1..MaxUnits] :
              kinds \in {S \in SUBSET Resources : Cardinality(S) <= MaxKinds}}

\* The points of RoadGame at which trades are proposed (calls issued): the
\* last setup turn, player 1 about to roll with 8 resources, player 2 in its turn
TradePoints == {15, 46, 60}

replay_trade == \E n \in TradePoints : Replay(SubSeq(RoadGame, 1, n))

propose_any_trade ==
    /\ ncalls = 0
    /\ ncalls' = 1
    /\ UNCHANGED <<board, ctor_step>>
    /\ \E proposer \in Players, target \in Players, offer \in Amounts, request \in Amounts :
          LET c == Trade(proposer, target, offer, request)
          IN  /\ game' = Call(game, c)
              /\ returned' = [op |-> c.op,
                              own_turn |-> c.player = CurrentPlayer(game),
                              ok |-> CallOk(game, c),
                              total |-> 0,
                              call |-> c]

NextTrade == replay_trade \/ propose_any_trade

SpecTrade == Init /\ [][NextTrade]_vars

\* Calls one at a time, with their history: a call of any operation, made in
\* the game as set up and at the points of the scripted games, and after it
\* calls of end_turn, of move_robber_action or of check_victory up to
\* MaxRepeat in a row.  returned also keeps the call, the game before it and the
\* current player at each call of the row.
MaxRepeat == 4

\* The operations called again and again
Repeated == {"start_turn", "end_turn", "move_robber_action", "check_victory"}

\* The resource random.choice can take from the victim's hand (any one where
\* nothing is stolen)
Stolen(g, player, new_hex, victim) ==
    IF MoveRobberActionOk(g, player, new_hex) /\ Steals(g, new_hex, victim)
    THEN {r \in Resources : g.resources[victim][r] > 0}
    ELSE {"brick"}

\* The resources the caller can name after playing the card at index i, when
\* it is of one of the types (any one otherwise)
NamedResource(g, player, i, types) ==
    IF /\ PlayDevelopmentCardOk(g, player, i)
       /\ g.development_cards[player][i].card_type \in types
    THEN Resources ELSE {"brick"}

\* play_development_card by the player with each card index tried (those of
\* the player's cards and the one past them) and the resources named after it
PlayCalls(g, player) ==
    UNION {{[op |-> "play_development_card", player |-> player, index |-> i,
             resource1 |-> resource1, resource2 |-> resource2] :
               resource1 \in NamedResource(g, player, i, {"monopoly", "invention"}),
               resource2 \in NamedResource(g, player, i, {"invention"})} :
           i \in 1..(Len(g.development_cards[player]) + 1)}

\* The calls tried in game g: the public operations of Game with the
\* arguments of the exploration, and the legality queries of Board
Calls(g) ==
    {PlaceSettlement(player, plot) : player \in Players, plot \in PlayPlots}
      \cup {PlaceRoad(player, path) : player \in Players, path \in PlayPaths}
      \cup {Roll(total) : total \in DiceTotals \ {7}}
      \cup {[Roll(7) EXCEPT !.discards = discards] :
                discards \in (IF StartTurnOk(g) THEN DiscardChoices(g, NumPlayers)
                              ELSE {NoDiscards})}
      \cup UNION {{Robber(player, new_hex, victim, stolen) :
                      stolen \in Stolen(g, player, new_hex, victim)} :
                  player \in Players, new_hex \in PlayHexes, victim \in Players \cup {0}}
      \cup {Road(player, path) : player \in Players, path \in PlayPaths}
      \cup {Settlement(player, plot) : player \in Players, plot \in PlayPlots}
      \cup {CityCall(player, plot) : player \in Players, plot \in PlayPlots}
      \cup {Buy(player, card_type) : player \in Players, card_type \in Draws(g)}
      \cup UNION {PlayCalls(g, player) : player \in Players}
      \cup {Trade(proposer, target, offer, request) :
                proposer \in Players, target \in Players,
                offer \in Units, request \in Units \cup {<< >>}}
      \cup {BankTradeCall(player, give_resource, receive_resource) :
                player \in Players, give_resource \in Resources,
                receive_resource \in Resources}
      \cup {EndTurnCall, CheckVictoryCall}
      \cup {CanSettle(player, plot, initial_placement) :
                player \in Players, plot \in PlayPlots, initial_placement \in BOOLEAN}
      \cup {CanRoad(player, path) : player \in Players, path \in PlayPaths}
      \cup {CanCity(player, plot) : player \in Players, plot \in PlayPlots}

\* The call c made in game g, with the call the card played asks of the
\* caller (execute_monopoly, execute_invention) made right after it
CallThrough(g, c) ==
    IF c.op = "play_development_card" /\ CallOk(g, c)
    THEN FollowUp(Call(g, c), c.player, g.development_cards[c.player][c.index].card_type,
                  c.resource1, c.resource2)
    ELSE Call(g, c)

\* The call c is made and returns; turns are the current players at the
\* earlier calls of the row, moved counts the accepted move_robber_action
\* calls, prior is what the call before it returned
Recorded(c, turns) ==
    /\ game' = CallThrough(game, c)
    /\ returned' = [op |-> c.op,
                    own_turn |-> "player" \in DOMAIN c => c.player = CurrentPlayer(game),
                    ok |-> CallOk(game, c),
                    total |-> IF c.op = "start_turn" /\ CallOk(game, c) THEN c.total ELSE 0,
                    call |-> c,
                    before |-> game,
                    turns |-> Append(turns, CurrentPlayer(game)),
                    moved |-> (IF ncalls = 0 THEN 0 ELSE returned.moved)
                              + (IF c.op = "move_robber_action" /\ CallOk(game, c)
                                 THEN 1 ELSE 0),
                    prior |-> [op |-> returned.op, ok |-> returned.ok,
                               total |-> returned.total]]

\* The points of the scripted games at which calls are made
CallScripts ==
    Scripts \cup {SubSeq(PortGame, 1, n) : n \in PortPoints}
            \cup {SubSeq(PieceGame, 1, n) : n \in {12, 30}} \cup {CityGame, SplitGame}

\* What a player may try as soon as a turn has begun, before the dice are
\* rolled
Early ==
    {Road(player, path) : player \in Players, path \in PlayPaths}
      \cup {Buy(player, card_type) : player \in Players, card_type \in Draws(game)}
      \cup {BankTradeCall(player, give_resource, receive_resource) :
                player \in Players, give_resource \in Resources,
                receive_resource \in Resources}

\* The calls that follow the call c in a row: the same operation, by the same
\* player and, for the robber, to any hexagon and without a victim; after the
\* first call also start_turn and then end_turn or start_turn again, and
\* end_turn and then a call of Early
Again(c) ==
    CASE c.op = "end_turn" -> {EndTurnCall} \cup (IF ncalls = 1 THEN Early ELSE {})
      [] c.op = "start_turn" ->
            IF ncalls = 1
            THEN {EndTurnCall} \cup {Roll(total) : total \in DiceTotals \ {7}}
            ELSE {}
      [] c.op = "check_victory" -> {CheckVictoryCall}
      [] c.op = "move_robber_action" ->
            {Robber(c.player, new_hex, 0, "brick") : new_hex \in PlayHexes}
      [] OTHER -> {}

replay_call == \E calls \in CallScripts : Replay(calls)

first_call ==
    /\ ncalls = 0
    /\ ncalls' = 1
    /\ UNCHANGED <<board, ctor_step>>
    /\ \E c \in Calls(game) : Recorded(c, << >>)

repeat_call ==
    /\ ncalls \in 1..(MaxRepeat - 1)
    /\ returned.op \in Repeated
    /\ ncalls' = ncalls + 1
    /\ UNCHANGED <<board, ctor_step>>
    /\ \E c \in Again(returned.call) :
           Recorded(c, IF c.op = returned.op THEN returned.turns ELSE << >>)

\* One more call of any kind on a game that the first call has ended
ended_call ==
    /\ ncalls = 1
    /\ game.phase = "end"
    /\ ncalls' = 2
    /\ UNCHANGED <<board, ctor_step>>
    /\ \E c \in Calls(game) : Recorded(c, << >>)

NextCall == replay_call \/ first_call \/ repeat_call \/ ended_call

SpecCall == Init /\ [][NextCall]_vars

(***************************************************************************)
(* Part 10.  The properties checked.  Those about Board() are checked      *)
(* under SpecBoard, the others under Spec.                                 *)
(***************************************************************************)

\* The holdings of resource r of players 1 .. n, added up
RECURSIVE SumHoldings(_, _, _)
SumHoldings(g, r, n) ==
    IF n = 0 THEN 0 ELSE g.resources[n][r] + SumHoldings(g, r, n - 1)

\* C1: for each of the five resource kinds, the bank's stock plus the sum of
\* all players' holdings equals 19 in every reachable state.
C1_Conservation ==
    \A r \in Resources : game.bank[r] + SumHoldings(game, r, NumPlayers) = 19

\* C2: in every reachable state no two Plots joined by a Path both hold a
\* building.
C2_DistanceRule ==
    \A path \in Paths :
        ~(PlotOccupied(game, board.paths[path][1]) /\ PlotOccupied(game, board.paths[path][2]))

\* C2 at work: in the main phase a call has given a player a third
\* settlement, and another building stands two paths away from it.
C2_Witness ==
    \E player \in Players :
        /\ ncalls > 0
        /\ game.phase = "main"
        /\ Len(game.settlements[player]) >= 3
        /\ LET plot == game.settlements[player][Len(game.settlements[player])]
           IN  \E adj_plot \in AdjacentPlots(plot) :
                  \E far_plot \in AdjacentPlots(adj_plot) \ {plot} :
                      PlotOccupied(game, far_plot)

\* C3: Board construction yields exactly 54 distinct Plots and exactly 72
\* distinct Paths.
C3_Counts ==
    BoardBuilt => Len(board.plot_hexagons) = 54 /\ Len(board.paths) = 72

\* C4: after board construction every Hexagon holds 6 pairwise-distinct Plots
\* in its 6 plot slots and 6 pairwise-distinct Paths in its 6 path slots, and
\* path i joins plot i and plot (i+1) mod 6.
C4_Hexagons ==
    BoardBuilt =>
        \A h \in Hexagons :
            /\ \A i, j \in 0..5 : i # j => board.plot_map[h][i] # board.plot_map[h][j]
            /\ Len(board.hex_paths[h]) = 6
            /\ \A i, j \in 1..6 : i # j => board.hex_paths[h][i] # board.hex_paths[h][j]
            /\ \A i \in 0..5 :
                  LET ends == board.paths[board.hex_paths[h][i + 1]]
                  IN  {ends[1], ends[2]} = {board.plot_map[h][i], board.plot_map[h][(i + 1) % 6]}

\* C5: after board construction every Plot has 2 or 3 adjacent Paths, the
\* same number of adjacent Plots, and between 1 and 3 adjacent Hexagons.
C5_Degrees ==
    BoardBuilt =>
        \A plot \in 1..Len(board.plot_hexagons) :
            /\ Cardinality(board.plot_paths[plot]) \in {2, 3}
            /\ Cardinality(board.plot_plots[plot]) = Cardinality(board.plot_paths[plot])
            /\ Cardinality(board.plot_hexagons[plot]) \in 1..3

\* An opponent of the player has a building on the plot
OpponentBuilding(g, player, plot) ==
    PlotOccupied(g, plot) /\ g.building[plot].player # player

\* The number of roads of the longest walk over the player's roads that starts
\* at the plot, uses no road of used and no road twice, and does not continue
\* through a plot holding an opponent's building (first: the walk starts here).
RECURSIVE LongestTrailFrom(_, _, _, _, _)
LongestTrailFrom(g, player, plot, used, first) ==
    IF ~first /\ OpponentBuilding(g, player, plot) THEN 0
    ELSE Max({0} \cup
             {1 + LongestTrailFrom(g, player, CHOOSE other \in PathPlots(path) : other # plot,
                                   used \cup {path}, FALSE) :
                 path \in (AdjacentPaths(plot) \cap PlayerRoads(g, player)) \ used})

\* The number of roads of the player's longest such walk
LongestTrail(g, player) ==
    Max({0} \cup {LongestTrailFrom(g, player, plot, {}, TRUE) :
                     plot \in UNION {PathPlots(path) : path \in PlayerRoads(g, player)}})

\* C6: for every player and every placement of roads and buildings,
\* get_longest_road returns the number of roads of the longest path through
\* the player's roads that uses no road twice and never continues through a
\* Plot occupied by an opponent's building.
C6_LongestTrail ==
    \A player \in Players : GetLongestRoad(game, player) = LongestTrail(game, player)

\* The player's roads linked to those of S through shared plots
RECURSIVE LinkedRoads(_, _, _)
LinkedRoads(g, player, S) ==
    LET more == {path \in PlayerRoads(g, player) :
                    \E linked \in S : PathPlots(path) \cap PathPlots(linked) # {}}
    IN  IF more \subseteq S THEN S ELSE LinkedRoads(g, player, S \cup more)

\* The player's roads form one unbranched chain with no opponent building on
\* an interior plot: linked, at most two roads at a plot, two open ends.
IsChain(g, player) ==
    LET roads == PlayerRoads(g, player)
        plots == UNION {PathPlots(path) : path \in roads}
        at(plot) == Cardinality(AdjacentPaths(plot) \cap roads)
    IN  /\ roads # {}
        /\ Cardinality(plots) = Cardinality(roads) + 1
        /\ \A plot \in plots : at(plot) <= 2
        /\ LinkedRoads(g, player, {Min(roads)}) = roads
        /\ \A plot \in plots : at(plot) = 2 => ~OpponentBuilding(g, player, plot)

\* The step is a build_road call (the game is in its main phase) that gives
\* the player a fifth road and leaves its roads a chain, and nobody held
\* Longest Road before it.
CompletesChainOfFive(player) ==
    /\ game.phase = "main"
    /\ game'.road # game.road
    /\ Cardinality(PlayerRoads(game, player)) = 4
    /\ Cardinality(PlayerRoads(game', player)) = 5
    /\ IsChain(game', player)
    /\ \A q \in Players : ~game.has_longest_road[q]

\* C7: for a player whose roads form one unbranched chain of n roads with no
\* opponent building on an interior Plot, get_longest_road returns n; and the
\* build_road call that completes a chain of 5 gives that player Longest Road
\* when nobody holds it.
C7_Chain ==
    /\ [](\A player \in Players :
             IsChain(game, player)
                 => GetLongestRoad(game, player) = Cardinality(PlayerRoads(game, player)))
    /\ [][\A player \in Players :
             CompletesChainOfFive(player) => game'.has_longest_road[player]]_vars

\* C7 at work: after a call, a player holds Longest Road with a chain of
\* exactly 5 roads while every other player has fewer than 4 roads.
C7_Witness ==
    \E player \in Players :
        /\ ncalls > 0
        /\ IsChain(game, player)
        /\ Cardinality(PlayerRoads(game, player)) = 5
        /\ GetLongestRoad(game, player) = 5
        /\ game.has_longest_road[player]
        /\ \A q \in Players \ {player} : Cardinality(PlayerRoads(game, q)) < 4

\* C8: if any player's computed victory points are 10 or more then phase is
\* End and winner is a player with at least 10 points; in Setup and Main no
\* player has 10 or more points and winner is unset.
C8_Victory ==
    /\ (\E player \in Players : CalculateVictoryPoints(game, player) >= 10)
          => /\ game.phase = "end"
             /\ game.winner \in Players
             /\ CalculateVictoryPoints(game, game.winner) >= 10
    /\ game.phase \in {"setup", "main"}
          => /\ \A player \in Players : CalculateVictoryPoints(game, player) < 10
             /\ game.winner = 0

\* C8 at work: an operation has taken a player to 10 points and the game is
\* over with that player the winner.
C8_Witness ==
    /\ ncalls > 0
    /\ game.phase = "end"
    /\ game.winner \in Players
    /\ CalculateVictoryPoints(game, game.winner) >= 10

\* The step plays card i of the player, a Knight not played before
PlaysKnight(player, i) ==
    /\ i <= Len(game'.development_cards[player])
    /\ game.development_cards[player][i].card_type = "knight"
    /\ ~game.development_cards[player][i].has_been_played
    /\ game'.development_cards[player][i].has_been_played

\* What a Knight played by the player does to the knight counts and to
\* Largest Army
ArmyRule(player) ==
    LET holder == FirstHolder(game.has_largest_army)
        count == game'.knights_played[player]
    IN  /\ count = game.knights_played[player] + 1
        /\ \A q \in Players \ {player} : game'.knights_played[q] = game.knights_played[q]
        /\ IF holder = 0
           THEN \A q \in Players : game'.has_largest_army[q] <=> (q = player /\ count >= 3)
           ELSE IF holder # player /\ count > game.knights_played[holder]
           THEN \A q \in Players : game'.has_largest_army[q] <=> (q = player)
           ELSE game'.has_largest_army = game.has_largest_army

\* C9: playing a Knight increments the player's knights_played by one and
\* rechecks Largest Army: the award goes to the first player to reach 3
\* knights played and afterwards moves to another player only when that
\* player's knight count strictly exceeds the holder's.
C9_LargestArmy ==
    [][\A player \in Players :
          \A i \in 1..Len(game.development_cards[player]) :
              PlaysKnight(player, i) => ArmyRule(player)]_vars

\* C9 at work: a player with 4 knights played holds Largest Army and a player
\* with 3 knights played, the first to reach 3, no longer does.
C9_Witness ==
    \E player, other \in Players :
        /\ game.knights_played[player] = 4
        /\ game.has_largest_army[player]
        /\ game.knights_played[other] = 3
        /\ ~game.has_largest_army[other]

\* The other player's road, as get_longest_road measures it after the step,
\* is long enough for the award and strictly longer than the holder's.
ExceedsHolder(holder, q) ==
    /\ GetLongestRoad(game', q) >= 5
    /\ GetLongestRoad(game', q) > GetLongestRoad(game', holder)

\* What a build_road call does to Longest Road
RoadRule ==
    LET holder == FirstHolder(game.has_longest_road)
    IN  IF holder = 0
        THEN \A q \in Players : game'.has_longest_road[q] <=> GetLongestRoad(game', q) >= 5
        ELSE /\ \A q \in Players \ {holder} :
                   IF ExceedsHolder(holder, q)
                   THEN game'.has_longest_road[q] /\ ~game'.has_longest_road[holder]
                   ELSE game'.has_longest_road[q] = game.has_longest_road[q]
             /\ (\A q \in Players \ {holder} : ~ExceedsHolder(holder, q))
                   => game'.has_longest_road[holder]

\* C10: check_longest_road, run by each build_road call, gives Longest Road to
\* the first player whose longest-road length (as get_longest_road returns it)
\* reaches 5 and afterwards moves it to a different player only when that
\* player's length strictly exceeds the current holder's; an equal length
\* never takes the award.
C10_LongestRoad ==
    [][(/\ game.phase = "main"
        /\ game'.road # game.road
        /\ \E player \in Players :
              Cardinality(PlayerRoads(game', player)) = Cardinality(PlayerRoads(game, player)) + 1)
          => RoadRule]_vars

\* C10 at work: a player with a road of 6 holds Longest Road and a player with
\* a road of 5, the first to reach 5, no longer does.
C10_Witness ==
    \E player, other \in Players :
        /\ GetLongestRoad(game, player) = 6
        /\ game.has_longest_road[player]
        /\ GetLongestRoad(game, other) = 5
        /\ ~game.has_longest_road[other]

\* The step is a call of the operation that returned a success result
Accepted(op) == returned'.op = op /\ returned'.ok

\* The settlements and the roads on the board
PlacedSettlements(g) == Cardinality({plot \in Plots : PlotOccupied(g, plot)})
PlacedRoads(g) == Cardinality({path \in Paths : PathOccupied(g, path)})

\* The step places a settlement of the current setup player, the first piece
\* of its setup turn
SettlementInTurn ==
    \E player \in Players :
        /\ player = CurrentPlayer(game)
        /\ Len(game'.settlements[player]) = Len(game.settlements[player]) + 1
        /\ PlacedSettlements(game) = PlacedRoads(game)

\* The step places a road of the current setup player next to the settlement
\* it has just placed
RoadInTurn ==
    \E player \in Players :
        /\ player = CurrentPlayer(game)
        /\ PlacedSettlements(game) = PlacedRoads(game) + 1
        /\ \E path \in Paths :
              /\ ~PathOccupied(game, path)
              /\ game'.road[path] = player
              /\ game'.settlements[player][Len(game'.settlements[player])] \in PathPlots(path)

\* After the step the setup turn belongs to the next player in snake order
SnakeAdvance ==
    IF game.setup_forward
    THEN IF game.current_player_index < NumPlayers - 1
         THEN game'.current_player_index = game.current_player_index + 1
         ELSE game'.current_player_index = NumPlayers - 1 /\ ~game'.setup_forward
    ELSE IF game.current_player_index > 0
         THEN game'.current_player_index = game.current_player_index - 1
         ELSE game'.phase = "main"

\* C11: during Setup, placements are accepted only in snake order (players
\* 0 .. N-1, then N-1 .. 0), each turn being one settlement followed by one
\* road that touches it: an accepted settlement is the current setup player's
\* and the first piece of its turn, an accepted road is the current setup
\* player's, follows its settlement of this turn and touches it, and passes
\* the turn on in snake order.
C11_SnakeOrder ==
    [][game.phase = "setup" =>
          /\ Accepted("place_initial_settlement") => SettlementInTurn
          /\ Accepted("place_initial_road") => RoadInTurn /\ SnakeAdvance]_vars

\* The step is one call of an operation (not the replay of a game played)
Called == ncalls' = ncalls + 1

\* Every player has exactly two settlements and two roads on the board
TwoOfEach(g) ==
    \A player \in Players :
        /\ Len(g.settlements[player]) = 2
        /\ Cardinality(PlayerRoads(g, player)) = 2

\* C12: Setup ends exactly when the reversed round completes, that is after
\* 2N accepted initial roads: the step that leaves the setup phase enters the
\* main phase with turn number 1 and with every player holding exactly two
\* settlements and two roads, and an accepted initial road that is the 2N-th
\* on the board leaves the setup phase.
C12_SetupEnds ==
    [][Called /\ game.phase = "setup" =>
          /\ game'.phase # "setup" =>
                /\ game'.phase = "main"
                /\ game'.turn_number = 1
                /\ PlacedRoads(game') = 2 * NumPlayers
                /\ TwoOfEach(game')
          /\ Accepted("place_initial_road") /\ PlacedRoads(game') = 2 * NumPlayers
                => game'.phase = "main"]_vars

\* The step gives the player one unit for each hexagon around the plot that is
\* not the desert and whose resource the bank still has, and nothing else
GrantsAround(player, plot) ==
    LET granted == CollectStartingResources(game, player, AdjacentHexagons(plot))
    IN  /\ game'.resources = granted.resources
        /\ game'.bank = granted.bank

\* C13: place_initial_settlement grants starting resources exactly when the
\* settlement is the placing player's second one (one unit for each adjacent
\* hexagon that is not the desert, skipped when the bank has none of that
\* resource); the player's first settlement grants nothing.
C13_StartingResources ==
    [][Called /\ Accepted("place_initial_settlement") =>
          \E player \in Players :
              /\ Len(game'.settlements[player]) = Len(game.settlements[player]) + 1
              /\ IF Len(game'.settlements[player]) = 2
                 THEN GrantsAround(player, game'.settlements[player][2])
                 ELSE /\ game'.resources = game.resources
                      /\ game'.bank = game.bank]_vars

\* The buildings on the plots of a hexagon from slot v on, each plot once, are
\* credited min(multiplier, bank stock) of the resource, in order
RECURSIVE CreditBuildings(_, _, _, _)
CreditBuildings(g, hex, resource, v) ==
    IF v >= NumVertices THEN g
    ELSE LET plot == HexPlot(hex, v)
             seen == \E u \in 0..(v - 1) : HexPlot(hex, u) = plot
             building == g.building[plot]
             amount == Min({GetResourceMultiplier(building), g.bank[resource]})
             g1 == IF ~seen /\ PlotOccupied(g, plot)
                   THEN [g EXCEPT !.resources[building.player][resource] = @ + amount,
                                  !.bank[resource] = @ - amount]
                   ELSE g
         IN  CreditBuildings(g1, hex, resource, v + 1)

\* The hexagons still to visit, in board order
RECURSIVE CreditHexagons(_, _)
CreditHexagons(g, hexes) ==
    IF hexes = {} THEN g
    ELSE LET hex == Min(hexes)
         IN  CreditHexagons(CreditBuildings(g, hex, TerrainResource(g.terrain[hex]), 0),
                            hexes \ {hex})

\* The hexagons that produce on a dice total
Producing(g, total) ==
    {hex \in Hexagons : /\ g.roll_value[hex] = total
                        /\ ~g.has_robber[hex]
                        /\ TerrainResource(g.terrain[hex]) # "none"}

\* C14: on a dice total other than 7, for every hexagon with that roll number
\* that does not hold the robber and for every building on it, the owner is
\* credited min(multiplier, current bank stock) units of the hexagon's
\* resource (1 for a settlement, 2 for a city), hexagon by hexagon and plot by
\* plot in board order, and nothing else changes.
C14_Distribution ==
    [][Called /\ Accepted("start_turn") /\ returned'.total # 7 =>
          game' = CreditHexagons(game, Producing(game, returned'.total))]_vars

\* What the players together gave up of resource r in the step
GivenUp(r) == SumHoldings(game, r, NumPlayers) - SumHoldings(game', r, NumPlayers)

\* C15: when a 7 is rolled, every player holding more than 7 resources loses
\* exactly half of them rounded down, all of which return to the bank, and
\* every player holding 7 or fewer loses nothing (9 held leaves 5).
C15_Discard ==
    [][Called /\ Accepted("start_turn") /\ returned'.total = 7 =>
          /\ \A player \in Players :
                LET held == GetTotalResources(game, player)
                IN  /\ GetTotalResources(game', player)
                         = IF held > 7 THEN held - (held \div 2) ELSE held
                    /\ \A r \in Resources :
                          game'.resources[player][r] <= game.resources[player][r]
          /\ \A r \in Resources : game'.bank[r] = game.bank[r] + GivenUp(r)]_vars

\* C15 at work: a 7 has been rolled at a point of DeckGame where a player held
\* 9 resources, and that player is left with 5 while the other hands are as
\* they were.
C15_Witness ==
    /\ ncalls = 1
    /\ returned = [op |-> "start_turn", own_turn |-> TRUE, ok |-> TRUE, total |-> 7]
    /\ \E player \in Players :
          /\ GetTotalResources(game, player) = 5
          /\ \E n \in DeckPoints :
                LET before == Run(SetupGame(0), SubSeq(DeckGame, 1, n))
                IN  /\ GetTotalResources(before, player) = 9
                    /\ \A other \in Players \ {player} :
                          game.resources[other] = before.resources[other]

\* The operations reserved to the player whose turn it is
TurnScoped ==
    {"build_road", "build_settlement", "build_city", "buy_development_card",
     "play_development_card", "propose_trade", "bank_trade"}

\* C16: in the main phase, build_road, build_settlement, build_city,
\* buy_development_card, play_development_card, propose_trade and bank_trade
\* called for a player who is not the current player return a failure result
\* and leave the whole game state unchanged.
C16_OwnTurn ==
    [][/\ Called
       /\ game.phase = "main"
       /\ returned'.op \in TurnScoped
       /\ ~returned'.own_turn
       => ~returned'.ok /\ game' = game]_vars

\* C16 at work: build_road has been refused to a player who is not the
\* current player in a state where a player other than the current one has
\* the resources and a free path next to its own road.
C16_Witness ==
    /\ game.phase = "main"
    /\ returned.op = "build_road"
    /\ ~returned.own_turn
    /\ ~returned.ok
    /\ \E player \in Players \ {CurrentPlayer(game)}, path \in PlayPaths :
          CanBuildRoad(game, player, path) /\ PayForRoadOk(game, player)

\* C17: every operation that returns a failure result (False, None, or the
\* (0, 0, 0) of start_turn) leaves the whole game state unchanged: a rejected
\* build, purchase, card play, trade, setup placement or robber move alters
\* no resources, pieces, board occupancy, cards, turn flags or free roads.
C17_FailureUnchanged ==
    [][Called /\ ~returned'.ok => game' = game]_vars

\* C17 at work: buy_development_card has returned None to the current player,
\* who has the price in hand, because the deck is empty: the call that paid
\* and was refunded.
C17_Witness ==
    /\ returned.op = "buy_development_card"
    /\ returned.own_turn
    /\ ~returned.ok
    /\ BuyDevelopmentCardPays(game, CurrentPlayer(game))
    /\ CardsRemaining(game) = 0

\* Card i of the player is played in the step
PlayedNow(player, i) ==
    /\ ~game.development_cards[player][i].has_been_played
    /\ game'.development_cards[player][i].has_been_played

\* The cards stay in the hands they are in, and a card once played stays played
CardsKept ==
    \A player \in Players :
        /\ Len(game'.development_cards[player]) >= Len(game.development_cards[player])
        /\ \A i \in 1..Len(game.development_cards[player]) :
              LET before == game.development_cards[player][i]
                  after == game'.development_cards[player][i]
              IN  /\ after.card_type = before.card_type
                  /\ before.has_been_played => after.has_been_played

\* A card is played only by an accepted play_development_card of the current
\* player, one card a call; a card other than a VictoryPoint card only if the
\* player has played no such card this turn and did not buy the card this
\* turn, and the turn then counts as having seen a card played; a
\* VictoryPoint card adds exactly one victory point.
PlaysByTheRules ==
    /\ \A player \in Players :
          \A i \in 1..Len(game.development_cards[player]) :
              PlayedNow(player, i) =>
                  LET card == game.development_cards[player][i]
                  IN  /\ Accepted("play_development_card")
                      /\ player = CurrentPlayer(game)
                      /\ \A j \in 1..Len(game.development_cards[player]) :
                            PlayedNow(player, j) => j = i
                      /\ card.card_type # "victory_point" =>
                            /\ ~game.development_card_played_this_turn[player]
                            /\ ~card.bought
                            /\ game'.development_card_played_this_turn[player]
                      /\ card.card_type = "victory_point" =>
                            CalculateVictoryPoints(game', player)
                                = CalculateVictoryPoints(game, player) + 1
    /\ Accepted("play_development_card") =>
          \E i \in 1..Len(game.development_cards[CurrentPlayer(game)]) :
              PlayedNow(CurrentPlayer(game), i)

\* What a turn remembers (a card was played, a card was bought) is forgotten
\* by end_turn only
TurnMemoryKept ==
    \A player \in Players :
        /\ game.development_card_played_this_turn[player]
             /\ ~game'.development_card_played_this_turn[player]
             => Accepted("end_turn")
        /\ \A i \in 1..Len(game.development_cards[player]) :
              game.development_cards[player][i].bought
                  /\ ~game'.development_cards[player][i].bought
                  => Accepted("end_turn")

\* In the main phase every VictoryPoint card the current player holds and has
\* not played can be played, whenever it was bought and whatever was played
VictoryPointPlayable ==
    game.phase = "main" =>
        \A i \in 1..Len(game.development_cards[CurrentPlayer(game)]) :
            LET card == game.development_cards[CurrentPlayer(game)][i]
            IN  card.card_type = "victory_point" /\ ~card.has_been_played
                    => PlayDevelopmentCardOk(game, CurrentPlayer(game), i)

\* C18: within one turn a player plays at most one development card that is
\* not a VictoryPoint card; such a card cannot be played on the turn it was
\* bought; a VictoryPoint card can be played on the turn it was bought and
\* after another card was played that turn, and adds exactly one victory
\* point; no card can be played a second time.
C18_CardPlays ==
    /\ []VictoryPointPlayable
    /\ [][Called => CardsKept /\ PlaysByTheRules /\ TurnMemoryKept]_vars

\* C18 at work: the current player has played a Knight this turn and then a
\* VictoryPoint card bought this same turn, and still holds an older card that
\* is not a VictoryPoint card, which it cannot play.
C18_Witness ==
    LET player == CurrentPlayer(game)
        cards == game.development_cards[player]
    IN  /\ game.phase = "main"
        /\ returned.op = "play_development_card"
        /\ returned.ok
        /\ game.development_card_played_this_turn[player]
        /\ game.victory_point_cards_played[player] = 1
        /\ \E i \in 1..Len(cards) :
              /\ cards[i].card_type = "victory_point"
              /\ cards[i].has_been_played
              /\ cards[i].bought
        /\ \E i \in 1..Len(cards) :
              /\ cards[i].card_type # "victory_point"
              /\ ~cards[i].has_been_played
              /\ ~cards[i].bought
              /\ ~PlayDevelopmentCardOk(game, player, i)

\* The price of a development card as the rules give it
CardPrice == [r \in Resources |-> IF r \in {"wool", "wheat", "ore"} THEN 1 ELSE 0]

\* buy_development_card is called for the current player, who holds the price
PurchaseByPayer ==
    /\ Called
    /\ game.phase = "main"
    /\ returned'.op = "buy_development_card"
    /\ returned'.own_turn
    /\ \A r \in Resources : game.resources[CurrentPlayer(game)][r] >= CardPrice[r]

\* Nothing is granted and nobody's resources change
NothingBought ==
    /\ ~returned'.ok
    /\ game'.development_cards = game.development_cards
    /\ game'.deck = game.deck
    /\ game'.resources = game.resources
    /\ game'.bank = game.bank

\* Exactly one card goes from the deck to the end of the player's hand and
\* exactly the price goes from the player to the bank
OneCardBought(player) ==
    /\ returned'.ok
    /\ \E card_type \in CardTypes :
          /\ game'.deck = [game.deck EXCEPT ![card_type] = @ - 1]
          /\ game.deck[card_type] > 0
          /\ Len(game'.development_cards[player]) = Len(game.development_cards[player]) + 1
          /\ SubSeq(game'.development_cards[player], 1, Len(game.development_cards[player]))
                = game.development_cards[player]
          /\ game'.development_cards[player][Len(game'.development_cards[player])].card_type
                = card_type
    /\ \A other \in Players \ {player} :
          /\ game'.development_cards[other] = game.development_cards[other]
          /\ game'.resources[other] = game.resources[other]
    /\ \A r \in Resources :
          /\ game'.resources[player][r] = game.resources[player][r] - CardPrice[r]
          /\ game'.bank[r] = game.bank[r] + CardPrice[r]

\* C19: buy_development_card by the current player who can pay grants no card
\* and leaves the player's and the bank's resources as they were when the
\* deck is empty; when the deck is not empty it moves exactly one card from
\* the deck to the player for exactly 1 wool, 1 wheat and 1 ore paid to the
\* bank.
C19_Purchase ==
    [][PurchaseByPayer =>
          IF CardsRemaining(game) = 0
          THEN NothingBought
          ELSE OneCardBought(CurrentPlayer(game))]_vars

\* C19 at work: at the point of DeckGame where the deck is empty and the
\* current player holds the price, the purchase has been refused and the game
\* is as it was.
C19_Witness ==
    /\ ncalls = 1
    /\ returned.op = "buy_development_card"
    /\ returned.own_turn
    /\ ~returned.ok
    /\ CardsRemaining(game) = 0
    /\ \E n \in DeckPoints :
          LET before == Run(SetupGame(0), SubSeq(DeckGame, 1, n))
          IN  /\ CardsRemaining(before) = 0
              /\ \A r \in Resources : before.resources[CurrentPlayer(before)][r] >= CardPrice[r]
              /\ game = before

\* The units of resource r a trade names on one side
Named(amounts, r) == IF r \in DOMAIN amounts THEN amounts[r] ELSE 0

\* The trade names a resource on both sides, or a side lacks what it is to give
Untradable(g, c) ==
    \/ DOMAIN c.offer \cap DOMAIN c.request # {}
    \/ \E r \in DOMAIN c.offer : g.resources[c.player][r] < c.offer[r]
    \/ \E r \in DOMAIN c.request : g.resources[c.target][r] < c.request[r]

\* The hands after the offer went from proposer to target and the request
\* from target to proposer
Traded(g, c) ==
    [player \in Players |->
        [r \in Resources |->
            g.resources[player][r]
                + (IF player = c.target THEN Named(c.offer, r) ELSE 0)
                - (IF player = c.player THEN Named(c.offer, r) ELSE 0)
                + (IF player = c.player THEN Named(c.request, r) ELSE 0)
                - (IF player = c.target THEN Named(c.request, r) ELSE 0)]]

\* C20: propose_trade is rejected, with no resource moved on either side, if
\* a resource appears in both the offer and the request, if the proposer holds
\* less than an offered amount or if the target holds less than a requested
\* amount; otherwise (the proposer being the current player in the main
\* phase) exactly the offered amounts move from proposer to target and the
\* requested amounts from target to proposer, and nothing else changes.
C20_Trade ==
    [][Called /\ returned'.op = "propose_trade" =>
          IF Untradable(game, returned'.call)
          THEN ~returned'.ok /\ game' = game
          ELSE game.phase = "main" /\ returned'.own_turn =>
                  /\ returned'.ok
                  /\ game' = [game EXCEPT !.resources = Traded(game, returned'.call)]]_vars

\* C20 at work: a trade of two resources against a third between two players
\* has been accepted at a point of RoadGame, and the hands are those of that
\* point with the three amounts moved.
C20_Witness ==
    /\ returned.op = "propose_trade"
    /\ returned.ok
    /\ returned.call.player # returned.call.target
    /\ Cardinality(DOMAIN returned.call.offer) = 2
    /\ Cardinality(DOMAIN returned.call.request) = 1
    /\ \E n \in TradePoints :
          LET before == Run(SetupGame(0), SubSeq(RoadGame, 1, n))
          IN  /\ game.resources = Traded(before, returned.call)
              /\ game.resources # before.resources

(***************************************************************************)
(* The properties below are checked under SpecCall: they speak of the call *)
(* just made (returned.call), of the game before it (returned.before) and  *)
(* of the game after it (game).                                            *)
(***************************************************************************)

\* The call just made was a call of the operation op
Made(op) == ncalls > 0 /\ returned.op = op

\* The two plots of port k of the board
PortPlots(k) ==
    {HexPlot(port_configs[k][2], port_configs[k][3]),
     HexPlot(port_configs[k][2], port_configs[k][4])}

\* The player has a settlement or city on a port of the type
OnPort(g, player, port_type) ==
    \E k \in 1..Len(port_configs) :
        /\ port_configs[k][1] = port_type
        /\ \E plot \in PortPlots(k) :
              /\ g.building[plot].kind \in {"settlement", "city"}
              /\ g.building[plot].player = player

\* The type of the 2:1 port of each resource
TwoToOne ==
    [r \in Resources |->
        CASE r = "brick" -> "2_brick_to_1"
          [] r = "ore"   -> "2_ore_to_1"
          [] r = "wood"  -> "2_wood_to_1"
          [] r = "wool"  -> "2_wool_to_1"
          [] r = "wheat" -> "2_wheat_to_1"]

\* The give-count the player has access to for the resource
GiveCount(g, player, r) ==
    IF OnPort(g, player, TwoToOne[r]) THEN 2
    ELSE IF OnPort(g, player, "3_any_to_1") THEN 3
    ELSE 4

\* The game before with count units of give gone from the player to the bank
\* and one unit of receive gone from the bank to the player
BankTraded(before, player, give, count, receive) ==
    [before EXCEPT
        !.resources[player] =
            [r \in Resources |-> before.resources[player][r]
                - (IF r = give THEN count ELSE 0) + (IF r = receive THEN 1 ELSE 0)],
        !.bank =
            [r \in Resources |-> before.bank[r]
                + (IF r = give THEN count ELSE 0) - (IF r = receive THEN 1 ELSE 0)]]

\* C21: bank_trade(player, give, receive) charges the lowest give-count the
\* player has access to for the resource given (2 on a 2:1 port of that
\* resource, otherwise 3 on a generic port, otherwise 4) and hands over
\* exactly one unit of the resource received; it fails and changes nothing
\* when the player holds fewer units than that or the bank holds none of the
\* resource received; the current player's trade in the main phase succeeds
\* otherwise.
C21_BankTrade ==
    Made("bank_trade") =>
        LET c == returned.call
            before == returned.before
            count == GiveCount(before, c.player, c.give)
            short == \/ before.resources[c.player][c.give] < count
                     \/ before.bank[c.receive] = 0
        IN  /\ short => ~returned.ok
            /\ before.phase = "main" /\ returned.own_turn /\ ~short => returned.ok
            /\ returned.ok => game = BankTraded(before, c.player, c.give, count, c.receive)
            /\ ~returned.ok => game = before

\* C21 at work: a player with a settlement on the ore port and no more than
\* two ore has given two ore for one unit of another resource.
C21_Witness ==
    /\ Made("bank_trade")
    /\ returned.ok
    /\ returned.call.give = "ore"
    /\ returned.call.receive # "ore"
    /\ OnPort(returned.before, returned.call.player, "2_ore_to_1")
    /\ returned.before.resources[returned.call.player]["ore"] = 2
    /\ game.resources[returned.call.player]["ore"] = 0
    /\ game.resources[returned.call.player][returned.call.receive]
          = returned.before.resources[returned.call.player][returned.call.receive] + 1

\* The plots one path away from the plot
Neighbours(plot) == {other \in Plots : \E path \in Paths : PathPlots(path) = {plot, other}}
\* The paths ending at the plot
PathsAt(plot) == {path \in Paths : plot \in PathPlots(path)}

\* C22: can_build_settlement(player, plot, initial) answers yes exactly when
\* the plot is empty, the player has a settlement piece left, no plot one path
\* away holds a building, and initial is set or a path ending at the plot holds
\* a road of the player; before any placement an initial placement is legal on
\* every plot, and once a settlement is placed no player may settle, in setup
\* or after it, on a plot one path away from it.
C22_SettlementLegality ==
    /\ Made("can_build_settlement") =>
           LET c == returned.call
               before == returned.before
           IN  /\ returned.ok <=>
                      /\ before.building[c.plot].kind = "none"
                      /\ before.available_settlements[c.player] > 0
                      /\ \A other \in Neighbours(c.plot) :
                             before.building[other].kind = "none"
                      /\ \/ c.initial_placement
                         \/ \E path \in PathsAt(c.plot) : before.road[path] = c.player
               /\ before = SetupGame(0) /\ c.initial_placement => returned.ok
               /\ game = before
    /\ Made("place_initial_settlement") /\ returned.ok =>
           \A other \in Neighbours(returned.call.plot), player \in Players :
               /\ ~CanBuildSettlement(game, player, other, TRUE)
               /\ ~CanBuildSettlement(game, player, other, FALSE)

\* A settlement after setup is legal on a plot at the end of the player's own
\* road, two paths away from its nearest building
C22_Witness ==
    /\ Made("can_build_settlement")
    /\ returned.ok
    /\ ~returned.call.initial_placement
    /\ returned.before.phase = "main"
    /\ \E path \in PathsAt(returned.call.plot) :
           returned.before.road[path] = returned.call.player
    /\ \E plot \in Plots : returned.before.building[plot].kind # "none"

\* The player has a settlement or a city on the plot
Owns(g, player, plot) == g.building[plot].kind # "none" /\ g.building[plot].player = player
\* Another player has a settlement or a city on the plot
Blocked(g, player, plot) == g.building[plot].kind # "none" /\ g.building[plot].player # player
\* Another path ending at the plot holds a road of the player
RoadAt(g, player, plot, path) ==
    \E other \in PathsAt(plot) \ {path} : g.road[other] = player

\* C23 as stated: can_build_road(player, path) answers yes exactly when the
\* path is empty, the player has a road piece left, and the path shares a plot
\* with one of the player's roads or with one of the player's settlements or
\* cities.
C23_Original ==
    Made("can_build_road") =>
        LET c == returned.call
            before == returned.before
        IN  returned.ok <=>
                /\ before.road[c.path] = 0
                /\ before.available_roads[c.player] > 0
                /\ \E plot \in PathPlots(c.path) :
                       \/ RoadAt(before, c.player, plot, c.path)
                       \/ Owns(before, c.player, plot)

\* C23 amended: can_build_road(player, path) answers yes exactly when the path
\* is empty, the player has a road piece left, and the path shares with one of
\* the player's roads a plot that holds no building of another player, or
\* shares a plot with one of the player's settlements or cities; the query
\* changes nothing.
C23_RoadLegality ==
    Made("can_build_road") =>
        LET c == returned.call
            before == returned.before
        IN  /\ returned.ok <=>
                   /\ before.road[c.path] = 0
                   /\ before.available_roads[c.player] > 0
                   /\ \E plot \in PathPlots(c.path) :
                          \/ RoadAt(before, c.player, plot, c.path) /\ ~Blocked(before, c.player, plot)
                          \/ Owns(before, c.player, plot)
            /\ game = before

\* A road is refused on an empty path whose only link to the player's roads
\* runs through a plot holding another player's settlement
C23_Witness ==
    /\ Made("can_build_road")
    /\ ~returned.ok
    /\ returned.before.road[returned.call.path] = 0
    /\ returned.before.available_roads[returned.call.player] > 0
    /\ \E plot \in PathPlots(returned.call.path) :
           /\ RoadAt(returned.before, returned.call.player, plot, returned.call.path)
           /\ Blocked(returned.before, returned.call.player, plot)

\* C24: build_city returns True only for the current player in the main phase
\* on a plot holding that player's settlement, with a city piece left and 2
\* wheat and 3 ore in hand; it then puts a city of the same player on the plot,
\* hands 2 wheat and 3 ore to the bank, gives a settlement piece back, takes a
\* city piece, raises the player's victory points by exactly 1 and touches no
\* other plot, piece count or hand; a refused call changes nothing.
C24_BuildCity ==
    Made("build_city") =>
        LET c == returned.call
            before == returned.before
            player == c.player
        IN  /\ returned.ok =>
                   /\ before.phase = "main" /\ returned.own_turn
                   /\ before.building[c.plot] = [player |-> player, kind |-> "settlement"]
                   /\ before.available_cities[player] > 0
                   /\ before.resources[player]["wheat"] >= 2
                   /\ before.resources[player]["ore"] >= 3
            /\ returned.ok =>
                   /\ game.building =
                          [before.building EXCEPT ![c.plot] = [player |-> player, kind |-> "city"]]
                   /\ game.available_settlements =
                          [before.available_settlements EXCEPT ![player] = @ + 1]
                   /\ game.available_cities =
                          [before.available_cities EXCEPT ![player] = @ - 1]
                   /\ game.available_roads = before.available_roads
                   /\ game.resources =
                          [before.resources EXCEPT ![player]["wheat"] = @ - 2,
                                                   ![player]["ore"] = @ - 3]
                   /\ game.bank = [before.bank EXCEPT !["wheat"] = @ + 2, !["ore"] = @ + 3]
                   /\ CalculateVictoryPoints(game, player) =
                          CalculateVictoryPoints(before, player) + 1
                   /\ \A other \in Players \ {player} :
                          CalculateVictoryPoints(game, other) =
                              CalculateVictoryPoints(before, other)
            /\ ~returned.ok => game = before

\* A settlement has been upgraded to a city
C24_Witness ==
    /\ Made("build_city")
    /\ returned.ok
    /\ returned.before.building[returned.call.plot].kind = "settlement"
    /\ game.building[returned.call.plot] =
           [player |-> returned.call.player, kind |-> "city"]

\* The hexagons whose robber flag is set
Flagged(g) == {hex \in Hexagons : g.has_robber[hex]}

\* C25: once the board is set up, and after any sequence of move_robber_action
\* calls, exactly one hexagon has its robber flag set and it is
\* board.robber_location; a call naming the hexagon that holds the robber
\* returns False and changes nothing, and any other call puts the robber on
\* the hexagon named.
C25_OneRobber ==
    /\ Flagged(game) = {game.robber_location}
    /\ Made("move_robber_action") =>
           LET c == returned.call
               before == returned.before
           IN  /\ c.hex = before.robber_location => ~returned.ok /\ game = before
               /\ c.hex # before.robber_location =>
                      returned.ok /\ game.robber_location = c.hex

\* The robber has been moved three times in a row, the last time back to a
\* hexagon it had left
C25_Witness ==
    /\ Made("move_robber_action")
    /\ ncalls = 3
    /\ returned.ok
    /\ returned.before.robber_location # returned.call.hex
    /\ returned.before.robber_location \in PlayHexes
    /\ Flagged(game) = {returned.call.hex}

\* The player has a settlement or a city on a plot of the hexagon
BuiltOn(g, player, hex) ==
    \E plot \in Plots : hex \in AdjacentHexagons(plot) /\ Owns(g, player, plot)
\* The hands after one unit of the resource went from one player to another
UnitMoved(hands, from, to, r) ==
    [player \in Players |-> [x \in Resources |->
        hands[player][x] + (IF x = r /\ player = to THEN 1 ELSE 0)
                         - (IF x = r /\ player = from THEN 1 ELSE 0)]]

\* C26: an accepted move_robber_action with a victim moves exactly one unit of
\* one resource from the victim to the acting player exactly when the victim
\* is another player, has a building on the hexagon the robber moves to and
\* holds at least one unit; in every other case, a refused call and a call
\* without a victim included, no hand changes; the bank never changes.
C26_Steal ==
    Made("move_robber_action") =>
        LET c == returned.call
            before == returned.before
            steals == /\ returned.ok
                      /\ c.victim # 0
                      /\ c.victim # c.player
                      /\ BuiltOn(before, c.victim, c.hex)
                      /\ \E r \in Resources : before.resources[c.victim][r] > 0
        IN  /\ steals =>
                   \E r \in Resources :
                       /\ before.resources[c.victim][r] > 0
                       /\ game.resources = UnitMoved(before.resources, c.victim, c.player, r)
            /\ ~steals => game.resources = before.resources
            /\ game.bank = before.bank

\* A unit has gone from the victim to the player who moved the robber
C26_Witness ==
    /\ Made("move_robber_action")
    /\ returned.ok
    /\ returned.call.victim \in Players \ {returned.call.player}
    /\ \E r \in Resources :
           /\ game.resources[returned.call.victim][r] =
                  returned.before.resources[returned.call.victim][r] - 1
           /\ game.resources[returned.call.player][r] =
                  returned.before.resources[returned.call.player][r] + 1

\* C27: check_victory called while every player has fewer than 10 victory
\* points returns False and leaves phase, winner and all the rest of the game
\* as they were, at the first call and at every call that follows it.
C27_CheckVictoryIdle ==
    /\ Made("check_victory")
    /\ \A player \in Players : CalculateVictoryPoints(returned.before, player) < 10
    =>  /\ ~returned.ok
        /\ game.phase = returned.before.phase
        /\ game.winner = returned.before.winner
        /\ game = returned.before

\* check_victory has been called MaxRepeat times in a row in a game whose
\* leader has 9 points; the game goes on without a winner
C27_Witness ==
    /\ Made("check_victory")
    /\ ncalls = MaxRepeat
    /\ \E player \in Players : CalculateVictoryPoints(game, player) = 9
    /\ game.phase = "main"
    /\ game.winner = 0

\* The cards with none of them marked as bought this turn
Unmarked(cards) == [i \in DOMAIN cards |-> [cards[i] EXCEPT !.bought = FALSE]]
\* The players who were the current player at calls k .. k + NumPlayers - 1
Window(turns, k) == {turns[i] : i \in k..(k + NumPlayers - 1)}

\* C28: end_turn in the main phase clears the current player's
\* card-played-this-turn flag and the bought-this-turn mark of that player's
\* cards, moves the current player index to (index + 1) mod N, adds exactly 1
\* to the turn counter and leaves the board, the bank, the hands and everything
\* else alone; over any N end_turn calls in a row each player is the current
\* player exactly once.
C28_EndTurn ==
    Made("end_turn") /\ returned.before.phase = "main" =>
        LET before == returned.before
            player == before.current_player_index + 1
            turns == returned.turns
        IN  /\ ~game.development_card_played_this_turn[player]
            /\ \A i \in DOMAIN game.development_cards[player] :
                   ~game.development_cards[player][i].bought
            /\ game.current_player_index = (before.current_player_index + 1) % NumPlayers
            /\ game.turn_number = before.turn_number + 1
            /\ game =
                   [before EXCEPT
                       !.development_card_played_this_turn[player] = FALSE,
                       !.development_cards[player] = Unmarked(@),
                       !.current_player_index = game.current_player_index,
                       !.turn_number = game.turn_number]
            /\ \A k \in 1..(Len(turns) - NumPlayers + 1) :
                   /\ Window(turns, k) = Players
                   /\ \A i, j \in k..(k + NumPlayers - 1) : turns[i] = turns[j] => i = j

\* end_turn has cleared the flag and the mark of a card bought in the turn
C28_Witness ==
    /\ Made("end_turn")
    /\ returned.before.phase = "main"
    /\ LET player == returned.before.current_player_index + 1
       IN  /\ returned.before.development_card_played_this_turn[player]
           /\ \E i \in DOMAIN returned.before.development_cards[player] :
                  /\ returned.before.development_cards[player][i].bought
                  /\ ~game.development_cards[player][i].bought
           /\ ~game.development_card_played_this_turn[player]

\* What the players other than the given one hold of the resource, together
OthersHold(g, player, r) == SumHoldings(g, r, NumPlayers) - g.resources[player][r]

\* C29: a Monopoly card played on a resource leaves every other player with
\* none of it and adds to the player exactly what those players held together;
\* the bank's stock of the resource is as it was before.
C29_Monopoly ==
    /\ Made("play_development_card")
    /\ returned.ok
    /\ returned.before.development_cards[returned.call.player][returned.call.index].card_type
           = "monopoly"
    =>  LET c == returned.call
            before == returned.before
            r == c.resource1
        IN  /\ \A other \in Players \ {c.player} : game.resources[other][r] = 0
            /\ game.resources[c.player][r] =
                   before.resources[c.player][r] + OthersHold(before, c.player, r)
            /\ game.bank[r] = before.bank[r]

\* The path is empty and ends at a building of the player, or at a plot free
\* of other players' buildings where another road of the player ends
RoadFits(g, player, path) ==
    /\ g.road[path] = 0
    /\ \E plot \in PathPlots(path) :
           \/ RoadAt(g, player, plot, path) /\ ~Blocked(g, player, plot)
           \/ Owns(g, player, plot)

\* C30: an accepted play of a Road Building card sets the player's free roads
\* to exactly two and takes no resources; while a player has a free road an
\* accepted build_road is on a path that passes can_build_road, takes one free
\* road and no resources, and a refused build_road takes nothing; with no free
\* road left an accepted build_road costs 1 brick and 1 wood; no other
\* operation changes the number of free roads.
C30_RoadBuilding ==
    ncalls > 0 =>
        LET c == returned.call
            before == returned.before
            free == before.free_roads_remaining
        IN  /\ /\ returned.op = "play_development_card"
               /\ returned.ok
               /\ before.development_cards[c.player][c.index].card_type = "road_building"
               =>  /\ game.free_roads_remaining = [free EXCEPT ![c.player] = 2]
                   /\ game.resources = before.resources
                   /\ game.bank = before.bank
            /\ returned.op = "build_road" /\ returned.ok /\ free[c.player] > 0 =>
                   /\ RoadFits(before, c.player, c.path)
                   /\ game.road[c.path] = c.player
                   /\ game.free_roads_remaining = [free EXCEPT ![c.player] = @ - 1]
                   /\ game.resources = before.resources
                   /\ game.bank = before.bank
            /\ returned.op = "build_road" /\ returned.ok /\ free[c.player] = 0 =>
                   /\ game.free_roads_remaining = free
                   /\ game.resources =
                          [before.resources EXCEPT ![c.player]["brick"] = @ - 1,
                                                   ![c.player]["wood"] = @ - 1]
                   /\ game.bank = [before.bank EXCEPT !["brick"] = @ + 1, !["wood"] = @ + 1]
            /\ returned.op = "build_road" /\ ~returned.ok => game = before
            /\ returned.op \notin {"play_development_card", "build_road"} =>
                   game.free_roads_remaining = free

\* The second free road of a Road Building card has been built: no free road
\* is left and the hand is as it was
C30_Witness ==
    /\ Made("build_road")
    /\ returned.ok
    /\ returned.before.free_roads_remaining[returned.call.player] = 1
    /\ game.free_roads_remaining[returned.call.player] = 0
    /\ game.resources = returned.before.resources
    /\ game.road[returned.call.path] = returned.call.player

(***************************************************************************)
(* Properties of the game as a whole, checked over the calls of SpecCall.  *)
(***************************************************************************)

\* The players whose flag is set
Holders(flags) == {player \in Players : flags[player]}

\* C31: in every state at most one player holds Longest Road and at most one
\* player holds Largest Army.
C31_OneHolder ==
    /\ Cardinality(Holders(game.has_longest_road)) <= 1
    /\ Cardinality(Holders(game.has_largest_army)) <= 1

\* The resources of the players and the robber are where they were before the
\* call
NothingRobbed ==
    /\ game.robber_location = returned.before.robber_location
    /\ game.has_robber = returned.before.has_robber
    /\ game.resources = returned.before.resources

\* C32: move_robber_action is rejected, and moves neither the robber nor any
\* resource, when it is called for a player who is not the current player,
\* outside the main phase, or with no 7 or Knight pending; a turn has one roll
\* and at most one Knight, so after two accepted relocations in a row nothing
\* can be pending.
C32_RobberOwed ==
    Made("move_robber_action") =>
        LET before == returned.before
            moved == returned.moved - (IF returned.ok THEN 1 ELSE 0)
        IN  ~returned.own_turn \/ before.phase # "main" \/ moved >= 2
                => ~returned.ok /\ NothingRobbed

\* The call before the one just made was accepted and was of the operation
After(op) == ncalls > 1 /\ returned.prior.op = op /\ returned.prior.ok

\* C33: in the main phase, when start_turn has rolled a 7 and the robber has
\* not been moved since, end_turn does not complete the turn: the current
\* player and the turn counter stay as they are.
C33_RobberBeforeEnd ==
    /\ Made("end_turn")
    /\ After("start_turn")
    /\ returned.prior.total = 7
    /\ returned.before.phase = "main"
    =>  /\ game.current_player_index = returned.before.current_player_index
        /\ game.turn_number = returned.before.turn_number

\* The operations by which the acting player builds, buys, plays a card or
\* trades
\* C34: in a turn of the main phase the dice are rolled once and before the
\* player acts: a start_turn that follows an accepted start_turn of the same
\* turn, and a build, purchase, card play or trade made when the turn has just
\* begun and nothing was rolled, do not take effect.
C34_RollOnceFirst ==
    /\ Made("start_turn") /\ After("start_turn") =>
           ~returned.ok /\ game = returned.before
    /\ ncalls > 1 /\ returned.op \in TurnScoped /\ After("end_turn") =>
           ~returned.ok /\ game = returned.before

\* The operations that test the phase: those of a turn and of the set-up
Guarded ==
    TurnScoped \cup {"start_turn", "end_turn", "place_initial_settlement", "place_initial_road"}

\* C35: End is terminal.  A call made on a game whose phase is End leaves
\* the phase End and the winner the same player, and start_turn, end_turn,
\* every build, purchase, card play, trade and set-up placement made on it is
\* rejected and leaves the players, the bank and the board as they were.
C35_EndTerminal ==
    ncalls > 0 /\ returned.before.phase = "end" =>
        /\ game.phase = "end"
        /\ game.winner = returned.before.winner
        /\ returned.op \in Guarded => ~returned.ok /\ game = returned.before

\* A trade with the bank that the player whose turn it was could make in
\* Main is refused because the game has ended
C35_Witness ==
    /\ ncalls = 2
    /\ returned.before.phase = "end"
    /\ returned.op = "bank_trade"
    /\ CallOk([returned.before EXCEPT !.phase = "main"], returned.call)
    /\ ~returned.ok
    /\ game.winner \in Players

\* C36: occupancy is permanent.  A plot that holds a building before a call
\* holds a building of the same owner after it, of the same kind or a city in
\* place of the settlement, and a path that holds a road before a call holds
\* the same owner's road after it.
C36_Permanent ==
    ncalls > 0 =>
        LET before == returned.before
        IN  /\ \A plot \in Plots :
                  PlotOccupied(before, plot) =>
                      /\ game.building[plot].player = before.building[plot].player
                      /\ game.building[plot].kind \in {before.building[plot].kind, "city"}
            /\ \A path \in Paths :
                  PathOccupied(before, path) => game.road[path] = before.road[path]

\* A player asks for a road on a path that holds another player's road and
\* touches a road of the asker: the call is refused
C36_Witness ==
    /\ Made("build_road")
    /\ ~returned.ok
    /\ returned.own_turn
    /\ returned.before.phase = "main"
    /\ returned.before.road[returned.call.path] \in Players \ {returned.call.player}
    /\ CanBuildRoadOver(returned.before, returned.call.player, returned.call.path)
    /\ PayForRoadOk(returned.before, returned.call.player)
    /\ game.road[returned.call.path] = returned.before.road[returned.call.path]

\* The plots that hold a building of the kind of the player
OnBoard(g, player, kind) ==
    {plot \in Plots : g.building[plot] = [player |-> player, kind |-> kind]}

\* C37: for every player the settlements left plus the settlements on the
\* board are 5, the cities left plus the cities on the board are 4, the roads
\* left plus the roads on the board are 15, and no count of pieces left is
\* negative.
C37_Pieces ==
    \A player \in Players :
        /\ game.available_settlements[player]
               + Cardinality(OnBoard(game, player, "settlement")) = StartSettlements
        /\ game.available_cities[player]
               + Cardinality(OnBoard(game, player, "city")) = StartCities
        /\ game.available_roads[player]
               + Cardinality(PlayerRoads(game, player)) = StartRoads
        /\ game.available_settlements[player] >= 0
        /\ game.available_cities[player] >= 0
        /\ game.available_roads[player] >= 0

\* A player upgrades a settlement: one settlement piece more and one city
\* piece less are left, with roads of the player on the board
C37_Witness ==
    /\ Made("build_city")
    /\ returned.ok
    /\ game.available_settlements[returned.call.player]
           = returned.before.available_settlements[returned.call.player] + 1
    /\ game.available_cities[returned.call.player]
           = returned.before.available_cities[returned.call.player] - 1
    /\ game.available_roads[returned.call.player] < StartRoads

\* The development cards of players 1 .. n, played or not, counted
RECURSIVE CardsHeld(_, _)
CardsHeld(g, n) ==
    IF n = 0 THEN 0 ELSE Len(g.development_cards[n]) + CardsHeld(g, n - 1)

\* C38: the cards left in the development deck plus the development cards of
\* all players, played or not, are 25, and the deck never holds fewer than 0
\* cards of any type.
C38_Deck ==
    /\ CardsRemaining(game) + CardsHeld(game, NumPlayers) = 25
    /\ \A card_type \in CardTypes : game.deck[card_type] >= 0

\* A player who has the price asks for a card from the empty deck: no card
\* is handed out, and all 25 cards stay with the players
C38_Witness ==
    /\ Made("buy_development_card")
    /\ BuyDevelopmentCardPays(returned.before, returned.call.player)
    /\ CardsRemaining(returned.before) = 0
    /\ ~returned.ok
    /\ CardsRemaining(game) = 0
    /\ CardsHeld(game, NumPlayers) = 25

\* C39: after the construction of the board every path joins two distinct
\* plots, and no two different paths join the same unordered pair of plots.
C39_Paths ==
    BoardBuilt =>
        /\ \A e \in 1..Len(board.paths) : board.paths[e][1] # board.paths[e][2]
        /\ \A e, f \in 1..Len(board.paths) :
               e # f => {board.paths[e][1], board.paths[e][2]}
                           # {board.paths[f][1], board.paths[f][2]}

\* The board is built and some path lies on two hexagons: the second of them
\* found the path of the first and made no other
C39_Witness ==
    /\ BoardBuilt
    /\ Len(board.paths) > 0
    /\ \E e \in 1..Len(board.paths) :
          /\ Cardinality(board.path_hexagons[e]) = 2
          /\ \E h \in board.path_hexagons[e] :
                \E k \in 1..Len(board.hex_paths[h]) : board.hex_paths[h][k] = e

\* C40: every player's count of every resource is at least 0, and the bank's
\* stock of every resource is between 0 and 19.
C40_Stocks ==
    \A r \in Resources :
        /\ \A player \in Players : game.resources[player][r] >= 0
        /\ game.bank[r] >= 0
        /\ game.bank[r] <= BankStart

\* The current player offers the bank its price for a resource the bank has
\* run out of: the trade is refused and the bank's stock stays 0
C40_Witness ==
    /\ Made("bank_trade")
    /\ returned.own_turn
    /\ returned.before.phase = "main"
    /\ returned.before.bank[returned.call.receive] = 0
    /\ returned.before.resources[returned.call.player][returned.call.give]
           >= GetBestTradeRatio(returned.before, returned.call.player,
                                returned.call.give)
    /\ ~returned.ok
    /\ game.bank[returned.call.receive] = 0

====
